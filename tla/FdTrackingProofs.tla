-------------------------- MODULE FdTrackingProofs --------------------------
(***************************************************************************)
(* Proofs about FdTracking, for any numbers of descriptors, calls, records *)
(* in the ring and followed descriptors.                                   *)
(*                                                                         *)
(* That a watched file acquired in sight of the filter is followed is not  *)
(* inductive: between the call's effect and sys_exit's update_watch_fds    *)
(* the descriptor is not yet followed, and two calls on one descriptor     *)
(* could undo each other's update. As long as no descriptor is reused      *)
(* while a call on it goes on and the table has room, the invariant keeps  *)
(* the calls in flight of one process apart (Exclusive) and says of each   *)
(* what it is about to follow or to remove.                                *)
(***************************************************************************)
EXTENDS FdTracking, FiniteSetTheorems, SequenceTheorems, WellFoundedInduction, TLAPS

\* Between the entry of a call and its return.
InFlight(t) == thread[t].pc \in {"call", "submit", "follow"}

\* The call has taken effect, sys_exit has not returned.
Leaving(t) == thread[t].pc \in {"submit", "follow"}

\* The descriptors the call of t names.
Names(t) == {thread[t].fd, thread[t].to} \cap Fds

-----------------------------------------------------------------------------
(* The types.                                                               *)

Kinds == {"open", "close", "dup", "dup2", "use", "failed"}

ThreadState ==
  [pc : {"absent", "user", "call", "submit", "follow"}, kind : Kinds \cup {"none"},
   fd : 0 .. FdCount, to : 0 .. FdCount, path : Targets, form : Forms,
   saved : BOOLEAN, shown : BOOLEAN, table : [Fds -> Targets]]

Record ==
  [thread : Threads, kind : Kinds \cup {"fork"}, fd : 0 .. FdCount, to : 0 .. FdCount,
   path : Targets, form : Forms, shown : BOOLEAN, table : [Fds -> Targets]]

\* The descriptors a call of this kind names; open and dup have a result once over.
Named(c, over) ==
  /\ c.kind \in {"close", "dup", "dup2", "use"} => c.fd \in Fds
  /\ c.kind = "dup2" => c.to \in Fds
  /\ c.kind \in {"open", "dup"} /\ over => c.to \in Fds

ThreadInv ==
  /\ thread \in [Threads -> ThreadState]
  /\ thread[Main].pc # "absent"
  /\ \A t \in Threads :
       /\ Named(thread[t], Leaving(t))
       /\ InFlight(t) <=> thread[t].kind # "none"
       /\ thread[t].pc = "submit" => thread[t].saved

\* A process has its first thread's name; nothing is said of one that is not there.
ProcessInv ==
  /\ process \in [Threads -> Threads] /\ process[Main] = Main
  /\ thread[Other].pc = "absent" => process[Other] = Main
  /\ \A fd \in Fds : process[Other] = Main => <<Other, fd>> \notin shown

RingInv ==
  /\ ring \in Seq(Record) /\ Len(ring) <= RingSlots
  /\ \A i \in DOMAIN ring : Named(ring[i], TRUE)

TypeInv ==
  /\ ThreadInv /\ ProcessInv /\ RingInv
  /\ files \in [Threads -> [Fds -> Targets]] /\ cached \in [Threads -> [Fds -> Targets]]
  /\ known \subseteq Threads /\ owner \in [Threads -> Threads]
  /\ followed \subseteq Threads \X Fds /\ IsFiniteSet(followed)
  /\ Cardinality(followed) <= FollowSlots
  /\ shown \subseteq Threads \X Fds
  /\ calls \in 0 .. MaxCalls
  /\ verdict \in [said : Said, actual : Targets, shown : BOOLEAN]

-----------------------------------------------------------------------------
Clean == causes \cap {"reuse", "full"} = {}

\* A descriptor that has to be followed.
Wanted(p, fd) == files[p][fd] \in Watched /\ <<p, fd>> \in shown

\* Two calls of a process that go on name different descriptors.
Exclusive ==
  \A t, u \in Threads :
    t # u /\ InFlight(t) /\ InFlight(u) /\ process[t] = process[u]
      => Names(t) \cap Names(u) = {}

\* u is about to follow the descriptor.
Following(u, p, fd) ==
  /\ Leaving(u) /\ process[u] = p
  /\ thread[u].kind \in {"open", "dup"} /\ thread[u].to = fd

WantedFollowed ==
  \A p \in Threads, fd \in Fds :
    Wanted(p, fd) => Follows(p, fd) \/ \E u \in Threads : Following(u, p, fd)

\* A call that was let go without an entry makes no descriptor that is wanted.
DroppedUnwanted ==
  \A t \in Threads : thread[t].pc = "call" /\ ~thread[t].saved =>
    /\ thread[t].kind = "open" => thread[t].form = "odd" \/ thread[t].path \notin Watched
    /\ thread[t].kind \in {"dup", "use"} => ~Wanted(process[t], thread[t].fd)

\* What update_watch_fds is about to remove is not wanted.
RemovedUnwanted ==
  \A t \in Threads : Leaving(t) =>
    /\ thread[t].kind = "close" => files[process[t]][thread[t].fd] = NoPath
    /\ thread[t].kind = "dup" /\ Wanted(process[t], thread[t].to)
         => Follows(process[t], thread[t].fd)

FollowInv ==
  Clean => Exclusive /\ WantedFollowed /\ DroppedUnwanted /\ RemovedUnwanted

IInv == TypeInv /\ FollowInv

-----------------------------------------------------------------------------
(* Helpers.                                                                 *)

LEMMA Limits ==
  /\ FdCount \in Nat \ {0} /\ MaxCalls \in Nat /\ RingSlots \in Nat /\ FollowSlots \in Nat
  /\ Fds \subseteq Nat /\ 1 \in Fds /\ Fds \subseteq 0 .. FdCount
  /\ NoFd \in 0 .. FdCount /\ NoFd \notin Fds
  /\ Main # Other /\ Main \in Threads /\ Other \in Threads
  /\ NoPath \in Targets /\ Paths \subseteq Targets /\ NoPath \notin Watched
  /\ Watched \subseteq Paths /\ Closed \in [Fds -> Targets]
  BY FdAssumption DEF Fds, NoFd, Threads, Targets, Closed

\* The lowest free descriptor is one of them.
LEMMA LowestIsLeast ==
  ASSUME NEW S, S \subseteq Nat, S # {}
  PROVE  Lowest(S) \in S
  <1> DEFINE Less == {p \in Nat \X Nat : p[1] < p[2]}
  <1>1. IsWellFoundedOn(Less, Nat)
    BY NatLessThanWellFounded DEF OpToRel
  <1>2. PICK x \in S : \A y \in S : <<y, x>> \notin Less
    BY <1>1, WFMin
  <1>3. \A y \in S : x <= y
    <2> TAKE y \in S
    <2>1. <<y, x>> \notin Less /\ x \in Nat /\ y \in Nat
      BY <1>2
    <2>2. ~(y < x)
      BY <2>1
    <2> QED
      BY <2>1, <2>2
  <1> QED
    BY <1>2, <1>3 DEF Lowest

LEMMA LowestFree ==
  ASSUME TypeInv, NEW t \in Threads, Free(t) # {}
  PROVE  /\ Lowest(Free(t)) \in Fds /\ Table(t)[Lowest(Free(t))] = NoPath
  <1>1. Free(t) \subseteq Nat
    BY Limits DEF Free
  <1>2. Lowest(Free(t)) \in Free(t)
    BY <1>1, LowestIsLeast
  <1> QED
    BY <1>2 DEF Free

LEMMA ThreadType ==
  ASSUME ThreadInv, NEW t \in Threads
  PROVE  /\ thread[t] \in ThreadState
         /\ thread[t].pc \in {"absent", "user", "call", "submit", "follow"}
         /\ thread[t].kind \in Kinds \cup {"none"}
         /\ thread[t].fd \in 0 .. FdCount /\ thread[t].to \in 0 .. FdCount
         /\ thread[t].path \in Targets /\ thread[t].form \in Forms
         /\ thread[t].saved \in BOOLEAN /\ thread[t].shown \in BOOLEAN
         /\ thread[t].table \in [Fds -> Targets]
  BY DEF ThreadInv, ThreadState

LEMMA IdleType ==
  /\ Idle \in ThreadState
  /\ Idle.pc = "user" /\ Idle.kind = "none" /\ Idle.fd = NoFd /\ Idle.to = NoFd
  /\ Idle.saved = FALSE /\ Idle.path = NoPath
  BY Limits DEF Idle, ThreadState, Forms

LEMMA CallType ==
  ASSUME NEW kind \in Kinds, NEW fd \in 0 .. FdCount, NEW to \in 0 .. FdCount,
         NEW path \in Targets, NEW form \in Forms, NEW c, c = Call(kind, fd, to, path, form)
  PROVE  /\ c \in ThreadState
         /\ c.pc = "call" /\ c.kind = kind /\ ~c.saved
         /\ c.fd = fd /\ c.to = to /\ c.path = path
  BY Limits DEF Call, Idle, ThreadState

LEMMA RequestType ==
  ASSUME NEW c \in Requests
  PROVE  /\ c \in ThreadState
         /\ c.pc = "call" /\ c.kind \in Kinds \ {"failed"} /\ ~c.saved
         /\ Named(c, FALSE)
         /\ c.kind = "open" => c.path \in Paths /\ c.fd = NoFd
         /\ c.kind # "dup2" => c.to = NoFd
  <1>2. /\ {"open", "close", "dup", "use", "dup2"} = Kinds \ {"failed"}
        /\ {"full", "suffix", "odd"} = Forms
    BY DEF Kinds, Forms
  <1>3. CASE \E p \in Paths, form \in {"full", "suffix"} : c = Call("open", NoFd, NoFd, p, form)
    <2>1. PICK p \in Paths, form \in {"full", "suffix"} : c = Call("open", NoFd, NoFd, p, form)
      BY <1>3
    <2>2. /\ "open" \in Kinds /\ NoFd \in 0 .. FdCount /\ NoFd \in 0 .. FdCount
          /\ p \in Targets /\ form \in Forms
      BY <2>1, Limits DEF Kinds, Forms
    <2>3. /\ c \in ThreadState /\ c.pc = "call" /\ c.kind = "open" /\ ~c.saved
          /\ c.fd = NoFd /\ c.to = NoFd /\ c.path = p
      BY <2>1, <2>2, CallType
    <2> QED
      BY <2>1, <2>3, <1>2, Limits DEF Named
  <1>4. CASE \E p \in Watched : c = Call("open", NoFd, NoFd, p, "odd")
    <2>1. PICK p \in Watched : c = Call("open", NoFd, NoFd, p, "odd")
      BY <1>4
    <2>2. /\ "open" \in Kinds /\ NoFd \in 0 .. FdCount /\ NoFd \in 0 .. FdCount
          /\ p \in Targets /\ "odd" \in Forms
      BY <2>1, Limits DEF Kinds, Forms
    <2>3. /\ c \in ThreadState /\ c.pc = "call" /\ c.kind = "open" /\ ~c.saved
          /\ c.fd = NoFd /\ c.to = NoFd /\ c.path = p
      BY <2>1, <2>2, CallType
    <2> QED
      BY <2>1, <2>3, <1>2, Limits DEF Named
  <1>5. CASE \E k \in {"close", "dup", "use"}, fd \in Fds : c = Call(k, fd, NoFd, NoPath, "full")
    <2>1. PICK k \in {"close", "dup", "use"}, fd \in Fds : c = Call(k, fd, NoFd, NoPath, "full")
      BY <1>5
    <2>2. /\ k \in Kinds /\ fd \in 0 .. FdCount /\ NoFd \in 0 .. FdCount
          /\ NoPath \in Targets /\ "full" \in Forms
      BY <2>1, Limits DEF Kinds, Forms
    <2>3. /\ c \in ThreadState /\ c.pc = "call" /\ c.kind = k /\ ~c.saved
          /\ c.fd = fd /\ c.to = NoFd /\ c.path = NoPath
      BY <2>1, <2>2, CallType
    <2> QED
      BY <2>1, <2>3, <1>2, Limits DEF Named
  <1>6. CASE \E fd \in Fds, to \in Fds : c = Call("dup2", fd, to, NoPath, "full")
    <2>1. PICK fd \in Fds, to \in Fds : c = Call("dup2", fd, to, NoPath, "full")
      BY <1>6
    <2>2. /\ "dup2" \in Kinds /\ fd \in 0 .. FdCount /\ to \in 0 .. FdCount
          /\ NoPath \in Targets /\ "full" \in Forms
      BY <2>1, Limits DEF Kinds, Forms
    <2>3. /\ c \in ThreadState /\ c.pc = "call" /\ c.kind = "dup2" /\ ~c.saved
          /\ c.fd = fd /\ c.to = to /\ c.path = NoPath
      BY <2>1, <2>2, CallType
    <2> QED
      BY <2>1, <2>3, <1>2, Limits DEF Named
  <1>7. \/ \E p \in Paths, form \in {"full", "suffix"} : c = Call("open", NoFd, NoFd, p, form)
        \/ \E p \in Watched : c = Call("open", NoFd, NoFd, p, "odd")
        \/ \E k \in {"close", "dup", "use"}, fd \in Fds : c = Call(k, fd, NoFd, NoPath, "full")
        \/ \E fd \in Fds, to \in Fds : c = Call("dup2", fd, to, NoPath, "full")
    BY DEF Requests
  <1> QED
    BY <1>3, <1>4, <1>5, <1>6, <1>7

-----------------------------------------------------------------------------
(* How the ring changes.                                                    *)

Submitted(r) ==
  /\ DOMAIN ring' = 1 .. (Len(ring) + 1)
  /\ ring'[Len(ring) + 1] = r
  /\ \A i \in DOMAIN ring : i \in DOMAIN ring' /\ ring'[i] = ring[i]

Taken ==
  /\ 1 \in DOMAIN ring
  /\ DOMAIN ring' = 1 .. (Len(ring) - 1)
  /\ \A i \in DOMAIN ring' : i + 1 \in DOMAIN ring /\ ring'[i] = ring[i + 1]

LEMMA RingType ==
  ASSUME RingInv
  PROVE  /\ ring \in Seq(Record) /\ Len(ring) \in Nat /\ DOMAIN ring = 1 .. Len(ring)
         /\ \A i \in DOMAIN ring : ring[i] \in Record /\ Named(ring[i], TRUE)
  <1>1. ring \in Seq(Record)
    BY DEF RingInv
  <1>2. Len(ring) \in Nat /\ DOMAIN ring = 1 .. Len(ring)
    BY <1>1, LenProperties
  <1>3. \A i \in DOMAIN ring : ring[i] \in Record
    BY <1>1, <1>2, ElementOfSeq
  <1> QED
    BY <1>1, <1>2, <1>3 DEF RingInv

LEMMA OutputRing ==
  ASSUME RingInv, NEW r \in Record, Named(r, TRUE), Output(r)
  PROVE  /\ RingInv'
         /\ \/ Submitted(r) /\ UNCHANGED causes
            \/ UNCHANGED ring /\ causes' = causes \cup {"lost"}
  <1>1. ring \in Seq(Record) /\ Len(ring) \in Nat /\ DOMAIN ring = 1 .. Len(ring)
    BY RingType
  <1>2. CASE ring' = Append(ring, r) /\ Len(ring) < RingSlots /\ UNCHANGED causes
    <2> DEFINE s == Append(ring, r)
    <2>1. s \in Seq(Record) /\ Len(s) = Len(ring) + 1
      BY <1>1, AppendProperties
    <2>2. s[Len(ring) + 1] = r /\ \A i \in 1 .. Len(ring) : s[i] = ring[i]
      BY <1>1, AppendProperties
    <2>3. DOMAIN s = 1 .. Len(s)
      BY <2>1, LenProperties
    <2>4. ring' = s
      BY <1>2
    <2> HIDE DEF s
    <2>5. Len(s) <= RingSlots
      BY <1>1, <1>2, <2>1, Limits
    <2>6. Submitted(r)
      BY <1>1, <2>1, <2>2, <2>3, <2>4 DEF Submitted
    <2>7. \A i \in DOMAIN s : Named(s[i], TRUE)
      <3> TAKE i \in DOMAIN s
      <3>1. i = Len(ring) + 1 \/ i \in DOMAIN ring
        BY <1>1, <2>1, <2>3
      <3> QED
        BY <3>1, <1>1, <2>2 DEF RingInv
    <2> QED
      BY <1>2, <2>1, <2>4, <2>5, <2>6, <2>7 DEF RingInv
  <1>3. CASE UNCHANGED ring /\ causes' = causes \cup {"lost"}
    BY <1>3 DEF RingInv
  <1> QED
    BY <1>2, <1>3 DEF Output

LEMMA TakenRing ==
  ASSUME RingInv, ring # << >>, ring' = Tail(ring)
  PROVE  /\ RingInv' /\ Taken /\ Head(ring) = ring[1]
  <1> DEFINE s == Tail(ring)
  <1>1. ring \in Seq(Record) /\ Len(ring) \in Nat /\ DOMAIN ring = 1 .. Len(ring)
    BY RingType
  <1>2. Head(ring) = ring[1] /\ Len(ring) >= 1
    BY <1>1, EmptySeq
  <1>3. s \in Seq(Record) /\ Len(s) = Len(ring) - 1
    BY <1>1, HeadTailProperties
  <1>4. \A i \in 1 .. Len(s) : s[i] = ring[i + 1]
    BY <1>1, HeadTailProperties
  <1>5. DOMAIN s = 1 .. Len(s)
    BY <1>3, LenProperties
  <1>6. ring' = s
    OBVIOUS
  <1> HIDE DEF s
  <1>7. Len(s) <= RingSlots
    BY <1>1, <1>3, Limits DEF RingInv
  <1>8. Taken
    BY <1>1, <1>2, <1>3, <1>4, <1>5, <1>6 DEF Taken
  <1>9. ASSUME NEW i \in DOMAIN s PROVE Named(s[i], TRUE)
    <2>1. s[i] = ring[i + 1] /\ i + 1 \in DOMAIN ring
      BY <1>1, <1>3, <1>4, <1>5
    <2> QED
      BY <2>1, RingType
  <1> QED
    BY <1>2, <1>3, <1>6, <1>7, <1>8, <1>9 DEF RingInv

-----------------------------------------------------------------------------
(* Type correctness of the kernel's steps.                                  *)

\* What a thread may be set to.
Settled(c) ==
  /\ c \in ThreadState /\ c.pc # "absent"
  /\ Named(c, c.pc \in {"submit", "follow"})
  /\ c.pc # "user" <=> c.kind # "none"
  /\ c.pc = "submit" => c.saved

LEMMA ThreadSet ==
  ASSUME ThreadInv, NEW t \in Threads, NEW c, Settled(c), thread' = [thread EXCEPT ![t] = c]
  PROVE  /\ ThreadInv' /\ thread'[t] = c
         /\ \A u \in Threads \ {t} : thread'[u] = thread[u]
         /\ thread'[Other].pc = "absent" => thread[Other].pc = "absent"
  <1>1. thread \in [Threads -> ThreadState] /\ c \in ThreadState
    BY DEF ThreadInv, Settled
  <1>2. /\ thread' \in [Threads -> ThreadState] /\ thread'[t] = c
        /\ \A u \in Threads \ {t} : thread'[u] = thread[u]
    BY <1>1
  <1>3. thread'[Main].pc # "absent" /\ (thread'[Other].pc = "absent" => thread[Other].pc = "absent")
    BY <1>2, Limits DEF Settled, ThreadInv
  <1>4. ASSUME NEW u \in Threads
        PROVE  /\ Named(thread'[u], thread'[u].pc \in {"submit", "follow"})
               /\ thread'[u].pc \in {"call", "submit", "follow"} <=> thread'[u].kind # "none"
               /\ thread'[u].pc = "submit" => thread'[u].saved
    <2>1. CASE u = t
      <3>1. c.pc \in {"absent", "user", "call", "submit", "follow"}
        BY <1>1 DEF ThreadState
      <3> QED
        BY <2>1, <1>2, <3>1 DEF Settled
    <2>2. CASE u # t
      BY <2>2, <1>2 DEF ThreadInv, InFlight, Leaving
    <2> QED
      BY <2>1, <2>2
  <1> QED
    BY <1>2, <1>3, <1>4 DEF ThreadInv, InFlight, Leaving

\* What Return leaves of a call.
Over(c, table) == IF c.saved THEN [c EXCEPT !.pc = "submit", !.table = table] ELSE Idle

LEMMA OverType ==
  ASSUME NEW c \in ThreadState, NEW table \in [Fds -> Targets], c.kind \in Kinds, Named(c, TRUE)
  PROVE  /\ Settled(Over(c, table))
         /\ c.saved => /\ Over(c, table).pc = "submit" /\ Over(c, table).kind = c.kind
                       /\ Over(c, table).fd = c.fd /\ Over(c, table).to = c.to
         /\ ~c.saved => Over(c, table) = Idle
  <1>1. CASE c.saved
    <2> DEFINE d == [c EXCEPT !.pc = "submit", !.table = table]
    <2>1. Over(c, table) = d
      BY <1>1 DEF Over
    <2>2. /\ d \in ThreadState
          /\ d.pc = "submit" /\ d.kind = c.kind /\ d.fd = c.fd /\ d.to = c.to
          /\ d.saved = c.saved
      BY DEF ThreadState
    <2> HIDE DEF d
    <2>3. Settled(d)
      BY <1>1, <2>2 DEF Settled, Named, Kinds
    <2> QED
      BY <1>1, <2>1, <2>2, <2>3
  <1>2. CASE ~c.saved
    BY <1>2, IdleType DEF Over, Settled, Named
  <1> QED
    BY <1>1, <1>2

OthersWait(t) == \A u \in Threads \ {t} : thread'[u] = thread[u]

\* How a saved call, and one without an entry, leave their thread.
LeftAs(t, c) ==
  /\ c.saved => /\ thread'[t].pc = "submit" /\ thread'[t].kind = c.kind
                /\ thread'[t].fd = c.fd /\ thread'[t].to = c.to
  /\ ~c.saved => thread'[t] = Idle

LEMMA ReturnTypes ==
  ASSUME ThreadInv, files \in [Threads -> [Fds -> Targets]], process \in [Threads -> Threads],
         NEW t \in Threads, NEW c \in ThreadState, c.kind \in Kinds, Named(c, TRUE),
         NEW table \in [Fds -> Targets], Return(t, c, table)
  PROVE  /\ ThreadInv' /\ files' \in [Threads -> [Fds -> Targets]]
         /\ OthersWait(t) /\ LeftAs(t, c)
         /\ thread'[Other].pc = "absent" => thread[Other].pc = "absent"
         /\ files'[process[t]] = table
         /\ \A p \in Threads \ {process[t]} : files'[p] = files[p]
  <1> DEFINE d == Over(c, table)
  <1>1. thread' = [thread EXCEPT ![t] = d]
    BY DEF Return, Over
  <1>2. /\ Settled(d)
        /\ c.saved => d.pc = "submit" /\ d.kind = c.kind /\ d.fd = c.fd /\ d.to = c.to
        /\ ~c.saved => d = Idle
    BY OverType
  <1> HIDE DEF d
  <1>3. /\ ThreadInv' /\ thread'[t] = d
        /\ \A u \in Threads \ {t} : thread'[u] = thread[u]
        /\ thread'[Other].pc = "absent" => thread[Other].pc = "absent"
    BY <1>1, <1>2, ThreadSet
  <1>4. files' = [files EXCEPT ![process[t]] = table]
    BY DEF Return
  <1>5. LeftAs(t, c)
    BY <1>2, <1>3 DEF LeftAs
  <1> QED
    BY <1>3, <1>4, <1>5 DEF OthersWait

LEMMA ReturnLeaves ==
  ASSUME TypeInv, NEW t \in Threads, NEW c \in ThreadState, c.kind \in Kinds, Named(c, TRUE),
         NEW table \in [Fds -> Targets], Return(t, c, table)
  PROVE  /\ OthersWait(t) /\ LeftAs(t, c)
         /\ files'[process[t]] = table
         /\ \A q \in Threads \ {process[t]} : files'[q] = files[q]
  <1>1. ThreadInv /\ files \in [Threads -> [Fds -> Targets]] /\ process \in [Threads -> Threads]
    BY DEF TypeInv, ProcessInv
  <1> QED
    BY <1>1, ReturnTypes

\* A call that takes effect changes its own thread, process and, perhaps, what is shown.
LEMMA EffectKeepsTypes ==
  ASSUME TypeInv, NEW t \in Threads, NEW c \in ThreadState, c.kind \in Kinds, Named(c, TRUE),
         NEW table \in [Fds -> Targets], thread[t].pc = "call", Return(t, c, table),
         NEW fd \in Fds, shown' \subseteq shown \cup {<<process[t], fd>>},
         verdict' \in [said : Said, actual : Targets, shown : BOOLEAN],
         UNCHANGED <<process, readable, calls, followed, ring, cache>>
  PROVE  TypeInv'
  <1>1. /\ ThreadInv' /\ files' \in [Threads -> [Fds -> Targets]]
        /\ thread'[Other].pc = "absent" => thread[Other].pc = "absent"
    BY ReturnTypes DEF TypeInv, ProcessInv
  <1>2. <<process[t], fd>> \in Threads \X Fds /\ process[t] \in Threads
    BY DEF TypeInv, ProcessInv
  <1>3. shown' \subseteq Threads \X Fds
    BY <1>2 DEF TypeInv
  <1>4. ASSUME NEW f \in Fds, process[Other] = Main PROVE <<Other, f>> \notin shown'
    <2>1. process[t] = Main
      BY <1>4 DEF TypeInv, ProcessInv, Threads
    <2>2. <<Other, f>> # <<process[t], fd>> /\ <<Other, f>> \notin shown
      BY <2>1, <1>4, Limits DEF TypeInv, ProcessInv
    <2> QED
      BY <2>2
  <1>5. ProcessInv'
    BY <1>1, <1>4 DEF TypeInv, ProcessInv, ThreadInv
  <1>6. RingInv'
    BY DEF TypeInv, RingInv
  <1> QED
    BY <1>1, <1>3, <1>5, <1>6 DEF TypeInv, cache

LEMMA TableType ==
  ASSUME TypeInv, NEW t \in Threads
  PROVE  /\ process[t] \in Threads /\ Table(t) \in [Fds -> Targets]
         /\ Table(t) = files[process[t]]
  BY DEF TypeInv, ProcessInv, Table

LEMMA ShowType ==
  ASSUME TypeInv, NEW t \in Threads, NEW fd \in Fds, NEW seen, Show(t, fd, seen)
  PROVE  /\ shown' \subseteq shown \cup {<<process[t], fd>>}
         /\ \A x : x # <<process[t], fd>> => (x \in shown' <=> x \in shown)
         /\ <<process[t], fd>> \in shown' <=> seen
  BY DEF Show

\* The effect of each call, as what it leaves in its thread and process.
LEMMA OpenEffect ==
  ASSUME TypeInv, NEW t \in Threads, thread[t].pc = "call", Open(t)
  PROVE  \E fd \in Fds, c \in ThreadState :
           /\ Table(t)[fd] = NoPath
           /\ c = [thread[t] EXCEPT !.to = fd]
           /\ c.kind = "open" /\ c.fd = thread[t].fd /\ c.to = fd /\ c.saved = thread[t].saved
           /\ Named(c, TRUE)
           /\ [Table(t) EXCEPT ![fd] = thread[t].path] \in [Fds -> Targets]
           /\ Return(t, c, [Table(t) EXCEPT ![fd] = thread[t].path])
           /\ Show(t, fd, thread[t].form # "odd")
           /\ causes' = Reusing(t, fd)
           /\ UNCHANGED verdict
  <1> DEFINE fd == Lowest(Free(t))
             c == [thread[t] EXCEPT !.to = fd]
  <1>1. thread[t].kind = "open" /\ Free(t) # {}
    BY DEF Open
  <1>2. fd \in Fds /\ Table(t)[fd] = NoPath
    BY <1>1, LowestFree
  <1>3. Return(t, c, [Table(t) EXCEPT ![fd] = thread[t].path]) /\ Show(t, fd, thread[t].form # "odd")
        /\ causes' = Reusing(t, fd) /\ UNCHANGED verdict
    BY DEF Open
  <1> HIDE DEF fd
  <1>4. thread[t] \in ThreadState /\ thread[t].path \in Targets
    BY ThreadType DEF TypeInv
  <1>5. c \in ThreadState /\ c.kind = "open" /\ c.fd = thread[t].fd /\ c.to = fd /\ c.saved = thread[t].saved
    BY <1>1, <1>2, <1>4, Limits DEF ThreadState
  <1>6. Named(c, TRUE)
    BY <1>2, <1>5 DEF Named
  <1>7. [Table(t) EXCEPT ![fd] = thread[t].path] \in [Fds -> Targets]
    BY <1>4, TableType
  <1>8. c = [thread[t] EXCEPT !.to = fd]
    OBVIOUS
  <1> HIDE DEF c
  <1> QED
    BY <1>2, <1>3, <1>5, <1>6, <1>7, <1>8

LEMMA DupEffect ==
  ASSUME TypeInv, NEW t \in Threads, thread[t].pc = "call", Dup(t)
  PROVE  \E fd \in Fds, c \in ThreadState :
           /\ Table(t)[fd] = NoPath /\ thread[t].fd \in Fds /\ fd # thread[t].fd
           /\ c.kind = "dup" /\ c.fd = thread[t].fd /\ c.to = fd /\ c.saved = thread[t].saved
           /\ Named(c, TRUE)
           /\ [Table(t) EXCEPT ![fd] = Table(t)[thread[t].fd]] \in [Fds -> Targets]
           /\ Return(t, c, [Table(t) EXCEPT ![fd] = Table(t)[thread[t].fd]])
           /\ Show(t, fd, Shown(t, thread[t].fd))
           /\ causes' = Reusing(t, fd)
           /\ UNCHANGED verdict
  <1> DEFINE fd == Lowest(Free(t))
             c == [thread[t] EXCEPT !.to = fd]
  <1>1. thread[t].kind = "dup" /\ Free(t) # {} /\ Table(t)[thread[t].fd] # NoPath
    BY DEF Dup
  <1>2. fd \in Fds /\ Table(t)[fd] = NoPath
    BY <1>1, LowestFree
  <1>3. Return(t, c, [Table(t) EXCEPT ![fd] = Table(t)[thread[t].fd]])
        /\ Show(t, fd, Shown(t, thread[t].fd))
        /\ causes' = Reusing(t, fd) /\ UNCHANGED verdict
    BY DEF Dup
  <1> HIDE DEF fd
  <1>4. thread[t] \in ThreadState /\ thread[t].fd \in Fds
    BY <1>1, ThreadType DEF TypeInv, ThreadInv, Named
  <1>5. c \in ThreadState /\ c.kind = "dup" /\ c.fd = thread[t].fd /\ c.to = fd /\ c.saved = thread[t].saved
    BY <1>1, <1>2, <1>4, Limits DEF ThreadState
  <1>6. Named(c, TRUE)
    BY <1>2, <1>4, <1>5 DEF Named
  <1>7. [Table(t) EXCEPT ![fd] = Table(t)[thread[t].fd]] \in [Fds -> Targets]
    BY <1>4, TableType
  <1> HIDE DEF c
  <1> QED
    BY <1>1, <1>2, <1>3, <1>4, <1>5, <1>6, <1>7

LEMMA CloseEffect ==
  ASSUME TypeInv, NEW t \in Threads, thread[t].pc = "call", Close(t)
  PROVE  /\ thread[t] \in ThreadState /\ thread[t].kind = "close" /\ thread[t].fd \in Fds
         /\ Named(thread[t], TRUE)
         /\ [Table(t) EXCEPT ![thread[t].fd] = NoPath] \in [Fds -> Targets]
         /\ Return(t, thread[t], [Table(t) EXCEPT ![thread[t].fd] = NoPath])
         /\ Show(t, thread[t].fd, FALSE)
         /\ UNCHANGED <<causes, verdict>>
  <1>1. thread[t] \in ThreadState /\ thread[t].kind = "close" /\ thread[t].fd \in Fds
    BY ThreadType DEF Close, TypeInv, ThreadInv, Named
  <1>2. Named(thread[t], TRUE)
    BY <1>1 DEF Named
  <1>3. [Table(t) EXCEPT ![thread[t].fd] = NoPath] \in [Fds -> Targets]
    BY <1>1, TableType, Limits
  <1> QED
    BY <1>1, <1>2, <1>3 DEF Close

LEMMA Dup2Effect ==
  ASSUME TypeInv, NEW t \in Threads, thread[t].pc = "call", Dup2(t)
  PROVE  /\ thread[t] \in ThreadState /\ thread[t].kind = "dup2"
         /\ thread[t].fd \in Fds /\ thread[t].to \in Fds
         /\ Named(thread[t], TRUE)
         /\ [Table(t) EXCEPT ![thread[t].to] = Table(t)[thread[t].fd]] \in [Fds -> Targets]
         /\ Return(t, thread[t], [Table(t) EXCEPT ![thread[t].to] = Table(t)[thread[t].fd]])
         /\ Show(t, thread[t].to, FALSE)
         /\ causes' = causes \cup {"dup2"} /\ UNCHANGED verdict
  <1>1. thread[t] \in ThreadState /\ thread[t].kind = "dup2" /\ thread[t].fd \in Fds /\ thread[t].to \in Fds
    BY ThreadType DEF Dup2, TypeInv, ThreadInv, Named
  <1>2. Named(thread[t], TRUE)
    BY <1>1 DEF Named
  <1>3. [Table(t) EXCEPT ![thread[t].to] = Table(t)[thread[t].fd]] \in [Fds -> Targets]
    BY <1>1, TableType
  <1> QED
    BY <1>1, <1>2, <1>3 DEF Dup2

LEMMA UseEffect ==
  ASSUME TypeInv, NEW t \in Threads, thread[t].pc = "call", Use(t)
  PROVE  \E c \in ThreadState :
           /\ thread[t].kind = "use" /\ thread[t].fd \in Fds
           /\ c.kind = "use" /\ c.fd = thread[t].fd /\ c.to = thread[t].to
           /\ c.saved = thread[t].saved /\ c.shown = Shown(t, c.fd)
           /\ Named(c, TRUE)
           /\ Return(t, c, Table(t))
           /\ verdict' = IF c.saved THEN verdict
                         ELSE Verdict("filtered", Table(t)[c.fd], Shown(t, c.fd))
           /\ UNCHANGED <<shown, causes>>
  <1> DEFINE c == [thread[t] EXCEPT !.shown = Shown(t, thread[t].fd)]
  <1>1. thread[t] \in ThreadState /\ thread[t].kind = "use" /\ thread[t].fd \in Fds
    BY ThreadType DEF Use, TypeInv, ThreadInv, Named
  <1>2. Shown(t, thread[t].fd) \in BOOLEAN
    BY DEF Shown
  <1>3. /\ c \in ThreadState
        /\ c.kind = "use" /\ c.fd = thread[t].fd /\ c.to = thread[t].to
        /\ c.saved = thread[t].saved /\ c.shown = Shown(t, thread[t].fd)
    BY <1>1, <1>2 DEF ThreadState
  <1>4. Return(t, c, Table(t)) /\ UNCHANGED <<shown, causes>>
        /\ verdict' = IF thread[t].saved THEN verdict
                      ELSE Verdict("filtered", Table(t)[thread[t].fd], Shown(t, thread[t].fd))
    BY DEF Use
  <1>5. Named(c, TRUE)
    BY <1>1, <1>3 DEF Named
  <1> HIDE DEF c
  <1> QED
    BY <1>1, <1>3, <1>4, <1>5

LEMMA FailEffect ==
  ASSUME TypeInv, NEW t \in Threads, thread[t].pc = "call", Fail(t)
  PROVE  \E c \in ThreadState :
           /\ c.kind = "failed" /\ c.fd = NoFd /\ c.to = NoFd /\ c.saved = thread[t].saved
           /\ Named(c, TRUE)
           /\ Return(t, c, Table(t))
           /\ UNCHANGED <<shown, causes, verdict>>
  <1> DEFINE c == [Idle EXCEPT !.kind = "failed", !.saved = thread[t].saved]
  <1>1. /\ c \in ThreadState
        /\ c.kind = "failed" /\ c.fd = NoFd /\ c.to = NoFd /\ c.saved = thread[t].saved
    BY ThreadType, Limits DEF TypeInv, ThreadState, Idle, Kinds, Forms
  <1>2. Return(t, c, Table(t)) /\ UNCHANGED <<shown, causes, verdict>>
    BY DEF Fail
  <1>3. Named(c, TRUE)
    BY <1>1 DEF Named
  <1> HIDE DEF c
  <1> QED
    BY <1>1, <1>2, <1>3

LEMMA EffectTypes ==
  ASSUME TypeInv, NEW t \in Threads, Effect(t)
  PROVE  TypeInv'
  <1>1. thread[t].pc = "call" /\ UNCHANGED <<process, readable, calls, followed, ring, cache>>
    BY DEF Effect
  <1>2. verdict \in [said : Said, actual : Targets, shown : BOOLEAN]
    BY DEF TypeInv
  <1>3. CASE Open(t)
    <2>1. PICK fd \in Fds, c \in ThreadState :
            /\ c.kind = "open" /\ Named(c, TRUE)
            /\ [Table(t) EXCEPT ![fd] = thread[t].path] \in [Fds -> Targets]
            /\ Return(t, c, [Table(t) EXCEPT ![fd] = thread[t].path])
            /\ Show(t, fd, thread[t].form # "odd")
            /\ UNCHANGED verdict
      BY <1>1, <1>3, OpenEffect
    <2>2. shown' \subseteq shown \cup {<<process[t], fd>>}
      BY <2>1, ShowType
    <2>3. c.kind \in Kinds
      BY <2>1 DEF Kinds
    <2> QED
      BY <1>1, <1>2, <2>1, <2>2, <2>3, EffectKeepsTypes
  <1>4. CASE Close(t)
    <2>1. /\ thread[t] \in ThreadState /\ thread[t].kind = "close" /\ thread[t].fd \in Fds
          /\ Named(thread[t], TRUE)
          /\ [Table(t) EXCEPT ![thread[t].fd] = NoPath] \in [Fds -> Targets]
          /\ Return(t, thread[t], [Table(t) EXCEPT ![thread[t].fd] = NoPath])
          /\ Show(t, thread[t].fd, FALSE)
          /\ UNCHANGED verdict
      BY <1>1, <1>4, CloseEffect
    <2>2. shown' \subseteq shown \cup {<<process[t], thread[t].fd>>}
      BY <2>1, ShowType
    <2>3. thread[t].kind \in Kinds
      BY <2>1 DEF Kinds
    <2> QED
      BY <1>1, <1>2, <2>1, <2>2, <2>3, EffectKeepsTypes
  <1>5. CASE Dup(t)
    <2>1. PICK fd \in Fds, c \in ThreadState :
            /\ c.kind = "dup" /\ Named(c, TRUE)
            /\ [Table(t) EXCEPT ![fd] = Table(t)[thread[t].fd]] \in [Fds -> Targets]
            /\ Return(t, c, [Table(t) EXCEPT ![fd] = Table(t)[thread[t].fd]])
            /\ Show(t, fd, Shown(t, thread[t].fd))
            /\ UNCHANGED verdict
      BY <1>1, <1>5, DupEffect
    <2>2. shown' \subseteq shown \cup {<<process[t], fd>>}
      BY <2>1, ShowType
    <2>3. c.kind \in Kinds
      BY <2>1 DEF Kinds
    <2> QED
      BY <1>1, <1>2, <2>1, <2>2, <2>3, EffectKeepsTypes
  <1>6. CASE Dup2(t)
    <2> DEFINE table == [Table(t) EXCEPT ![thread[t].to] = Table(t)[thread[t].fd]]
    <2>1. /\ thread[t] \in ThreadState /\ thread[t].kind = "dup2" /\ thread[t].to \in Fds
          /\ Named(thread[t], TRUE)
          /\ table \in [Fds -> Targets] /\ Return(t, thread[t], table)
          /\ Show(t, thread[t].to, FALSE)
          /\ UNCHANGED verdict
      BY <1>1, <1>6, Dup2Effect
    <2> HIDE DEF table
    <2>2. shown' \subseteq shown \cup {<<process[t], thread[t].to>>}
      BY <2>1, ShowType
    <2>3. thread[t].kind \in Kinds
      BY <2>1 DEF Kinds
    <2> QED
      BY <1>1, <1>2, <2>1, <2>2, <2>3, EffectKeepsTypes
  <1>7. CASE Use(t)
    <2>1. PICK c \in ThreadState :
            /\ c.kind = "use" /\ c.fd \in Fds /\ Named(c, TRUE)
            /\ Return(t, c, Table(t))
            /\ verdict' = IF c.saved THEN verdict
                          ELSE Verdict("filtered", Table(t)[c.fd], Shown(t, c.fd))
            /\ UNCHANGED shown
      BY <1>1, <1>7, UseEffect
    <2>2. Table(t)[c.fd] \in Targets /\ Shown(t, c.fd) \in BOOLEAN
      BY <2>1, TableType DEF Shown
    <2>3. verdict' \in [said : Said, actual : Targets, shown : BOOLEAN]
      BY <1>2, <2>1, <2>2 DEF Verdict, Said
    <2>4. c.kind \in Kinds
      BY <2>1 DEF Kinds
    <2> QED
      BY <1>1, <2>1, <2>3, <2>4, TableType, EffectKeepsTypes
  <1>8. CASE Fail(t)
    <2>1. PICK c \in ThreadState :
            /\ c.kind = "failed" /\ Named(c, TRUE)
            /\ Return(t, c, Table(t))
            /\ UNCHANGED <<shown, verdict>>
      BY <1>1, <1>8, FailEffect
    <2>2. c.kind \in Kinds
      BY <2>1 DEF Kinds
    <2> QED
      BY <1>1, <1>2, <2>1, <2>2, TableType, Limits, EffectKeepsTypes
  <1> QED
    BY <1>3, <1>4, <1>5, <1>6, <1>7, <1>8 DEF Effect

\* A step in which only one thread moves on.
LEMMA ThreadKeepsTypes ==
  ASSUME TypeInv, NEW t \in Threads, NEW c, Settled(c), thread' = [thread EXCEPT ![t] = c],
         UNCHANGED <<process, shown>>
  PROVE  /\ ThreadInv' /\ ProcessInv' /\ thread'[t] = c
         /\ \A u \in Threads \ {t} : thread'[u] = thread[u]
  <1>1. /\ ThreadInv' /\ thread'[t] = c
        /\ \A u \in Threads \ {t} : thread'[u] = thread[u]
        /\ thread'[Other].pc = "absent" => thread[Other].pc = "absent"
    BY ThreadSet DEF TypeInv
  <1> QED
    BY <1>1 DEF TypeInv, ProcessInv

LEMMA EnterStep ==
  ASSUME TypeInv, NEW t \in Threads, Enter(t)
  PROVE  \E c \in Requests, d \in ThreadState :
           /\ \A fd \in {c.fd, c.to} \cap Fds : ~Busy(t, fd)
           /\ d.pc = "call" /\ d.kind = c.kind /\ d.fd = c.fd /\ d.to = c.to /\ d.path = c.path
           /\ d.form = c.form
           /\ d.saved => PassesFilter(process[t], c)
           /\ ~d.saved => MayBeDropped(process[t], c)
           /\ Settled(d)
           /\ thread' = [thread EXCEPT ![t] = d]
  <1>1. PICK c \in Requests :
          /\ ~\E fd \in {c.fd, c.to} \cap Fds : Busy(t, fd)
          /\ \/ /\ PassesFilter(process[t], c)
                /\ thread' = [thread EXCEPT ![t] = [c EXCEPT !.saved = TRUE]]
             \/ MayBeDropped(process[t], c) /\ thread' = [thread EXCEPT ![t] = c]
    BY DEF Enter
  <1>2. c \in ThreadState /\ c.pc = "call" /\ c.kind \in Kinds /\ ~c.saved /\ Named(c, FALSE)
    BY RequestType
  <1>3. CASE MayBeDropped(process[t], c) /\ thread' = [thread EXCEPT ![t] = c]
    <2>1. Settled(c)
      BY <1>2 DEF Settled, Kinds, Named
    <2> QED
      BY <1>1, <1>2, <1>3, <2>1
  <1>4. CASE PassesFilter(process[t], c) /\ thread' = [thread EXCEPT ![t] = [c EXCEPT !.saved = TRUE]]
    <2> DEFINE d == [c EXCEPT !.saved = TRUE]
    <2>1. /\ d \in ThreadState /\ d.pc = "call" /\ d.kind = c.kind /\ d.fd = c.fd /\ d.to = c.to
          /\ d.path = c.path /\ d.form = c.form /\ d.saved
      BY <1>2 DEF ThreadState
    <2>2. Settled(d)
      BY <1>2, <2>1 DEF Settled, Kinds, Named
    <2>3. thread' = [thread EXCEPT ![t] = d] /\ PassesFilter(process[t], c)
      BY <1>4
    <2> HIDE DEF d
    <2> QED
      BY <1>1, <2>1, <2>2, <2>3
  <1> QED
    BY <1>1, <1>3, <1>4

LEMMA EnterTypes ==
  ASSUME TypeInv, NEW t \in Threads, Enter(t)
  PROVE  TypeInv'
  <1>1. PICK d \in ThreadState : Settled(d) /\ thread' = [thread EXCEPT ![t] = d]
    BY EnterStep
  <1>2. calls' = calls + 1 /\ calls < MaxCalls
        /\ UNCHANGED <<process, files, readable, followed, ring, cache, verdict, shown>>
    BY DEF Enter
  <1>3. ThreadInv' /\ ProcessInv'
    BY <1>1, <1>2, ThreadKeepsTypes
  <1>4. calls' \in 0 .. MaxCalls
    BY <1>2, Limits DEF TypeInv
  <1> QED
    BY <1>2, <1>3, <1>4 DEF TypeInv, RingInv, cache

\* The record sys_exit submits of a call.
RecordOf(t) ==
  LET c == thread[t] IN
  [thread |-> t, kind |-> c.kind, fd |-> c.fd, to |-> c.to, path |-> c.path,
   form |-> c.form, shown |-> c.shown, table |-> c.table]

LEMMA SubmitStep ==
  ASSUME TypeInv, NEW t \in Threads, Submit(t)
  PROVE  /\ thread[t].pc = "submit" /\ thread[t].kind \in Kinds
         /\ RecordOf(t) \in Record /\ Named(RecordOf(t), TRUE)
         /\ Output(RecordOf(t))
         /\ \E d \in ThreadState :
              /\ d.pc = "follow" /\ d.kind = thread[t].kind
              /\ d.fd = thread[t].fd /\ d.to = thread[t].to
              /\ Settled(d)
              /\ thread' = [thread EXCEPT ![t] = d]
         /\ UNCHANGED <<process, files, readable, calls, followed, cache, verdict, shown>>
  <1> DEFINE d == [Idle EXCEPT !.pc = "follow", !.kind = thread[t].kind, !.fd = thread[t].fd,
                               !.to = thread[t].to]
  <1>1. thread[t].pc = "submit" /\ thread' = [thread EXCEPT ![t] = d] /\ Output(RecordOf(t))
        /\ UNCHANGED <<process, files, readable, calls, followed, cache, verdict, shown>>
    BY DEF Submit, RecordOf
  <1>2. thread[t].kind # "none" /\ Named(thread[t], TRUE)
    BY <1>1 DEF TypeInv, ThreadInv, InFlight, Leaving
  <1>3. thread[t].kind \in Kinds
    BY <1>2, ThreadType DEF TypeInv
  <1>4. RecordOf(t) \in Record
    BY <1>3, ThreadType DEF TypeInv, RecordOf, Record
  <1>5. Named(RecordOf(t), TRUE)
    BY <1>2 DEF RecordOf, Named
  <1>6. d \in ThreadState /\ d.pc = "follow" /\ d.kind = thread[t].kind
        /\ d.fd = thread[t].fd /\ d.to = thread[t].to
    BY <1>3, ThreadType, Limits DEF TypeInv, ThreadState, Idle, Forms
  <1> HIDE DEF d
  <1>7. Settled(d)
    BY <1>2, <1>6 DEF Settled, Named
  <1> QED
    BY <1>1, <1>3, <1>4, <1>5, <1>6, <1>7

LEMMA SubmitTypes ==
  ASSUME TypeInv, NEW t \in Threads, Submit(t)
  PROVE  TypeInv'
  <1>1. RingInv'
    BY SubmitStep, OutputRing DEF TypeInv
  <1>2. UNCHANGED <<process, files, readable, calls, followed, cache, verdict, shown>>
    BY DEF Submit
  <1>3. ThreadInv' /\ ProcessInv'
    BY <1>2, SubmitStep, ThreadKeepsTypes
  <1> QED
    BY <1>1, <1>2, <1>3 DEF TypeInv, cache

LEMMA FollowTypes ==
  ASSUME TypeInv, NEW t \in Threads, Follow(t)
  PROVE  TypeInv'
  <1> DEFINE Key == {<<process[t], thread[t].fd>>, <<process[t], thread[t].to>>}
  <1>1. thread' = [thread EXCEPT ![t] = Idle] /\ Settled(Idle) /\ thread[t].pc = "follow"
        /\ UNCHANGED <<process, files, readable, calls, ring, cache, verdict, shown>>
    BY IdleType DEF Follow, Settled, Named
  <1>2. ThreadInv' /\ ProcessInv'
    BY <1>1, ThreadKeepsTypes
  <1>3. process[t] \in Threads /\ Named(thread[t], TRUE)
    BY <1>1 DEF TypeInv, ProcessInv, ThreadInv, Leaving
  <1>4. IsFiniteSet(followed) /\ Cardinality(followed) \in Nat /\ Cardinality(followed) <= FollowSlots
        /\ followed \subseteq Threads \X Fds
    BY FS_CardinalityType DEF TypeInv
  <1>5. ASSUME NEW key \in Threads \X Fds, Insert(key)
        PROVE  /\ followed' \subseteq Threads \X Fds /\ IsFiniteSet(followed')
               /\ Cardinality(followed') <= FollowSlots
    <2>1. CASE key \in followed /\ followed' = followed \cup {key}
      <3>1. followed' = followed
        BY <2>1
      <3> QED
        BY <3>1, <1>4
    <2>2. CASE key \notin followed /\ Cardinality(followed) < FollowSlots /\ followed' = followed \cup {key}
      <3>1. IsFiniteSet(followed \cup {key}) /\ Cardinality(followed \cup {key}) = Cardinality(followed) + 1
        BY <2>2, <1>4, FS_AddElement
      <3> QED
        BY <3>1, <2>2, <1>4, Limits
    <2>3. CASE UNCHANGED followed
      BY <2>3, <1>4
    <2> QED
      BY <1>5, <2>1, <2>2, <2>3 DEF Insert
  <1>6. ASSUME NEW key, Remove(key)
        PROVE  /\ followed' \subseteq Threads \X Fds /\ IsFiniteSet(followed')
               /\ Cardinality(followed') <= FollowSlots
    <2>1. followed' = followed \ {key}
      BY <1>6 DEF Remove
    <2>2. IsFiniteSet(followed') /\ Cardinality(followed') <= Cardinality(followed)
      BY <2>1, <1>4, FS_Subset
    <2>3. Cardinality(followed') \in Nat
      BY <2>2, FS_CardinalityType
    <2> QED
      BY <2>1, <2>2, <2>3, <1>4, Limits
  <1>7. /\ followed' \subseteq Threads \X Fds /\ IsFiniteSet(followed')
        /\ Cardinality(followed') <= FollowSlots
    <2>1. UpdateWatchFds(process[t], thread[t])
      BY DEF Follow
    <2>2. CASE thread[t].kind \in {"open", "dup"} /\ Insert(<<process[t], thread[t].to>>)
      BY <2>2, <1>3, <1>5 DEF Named
    <2>3. CASE Remove(<<process[t], thread[t].fd>>) \/ Remove(<<process[t], thread[t].to>>)
      BY <2>3, <1>6
    <2>4. CASE UNCHANGED followed
      BY <2>4, <1>4
    <2> QED
      BY <2>1, <2>2, <2>3, <2>4 DEF UpdateWatchFds
  <1> QED
    BY <1>1, <1>2, <1>7 DEF TypeInv, RingInv, cache

ForkRecord ==
  [thread |-> Main, kind |-> "fork", fd |-> NoFd, to |-> NoFd, path |-> NoPath,
   form |-> "full", shown |-> FALSE, table |-> files[Main]]

LEMMA CloneStep ==
  ASSUME TypeInv, Clone
  PROVE  /\ thread[Main].pc = "user" /\ thread[Other].pc = "absent" /\ process[Other] = Main
         /\ thread' = [thread EXCEPT ![Other] = Idle] /\ Settled(Idle)
         /\ \/ process' = process /\ UNCHANGED files
            \/ /\ process' = [process EXCEPT ![Other] = Other]
               /\ files' = [files EXCEPT ![Other] = files[Main]]
         /\ ForkRecord \in Record /\ Named(ForkRecord, TRUE) /\ Output(ForkRecord)
         /\ UNCHANGED <<readable, calls, followed, cache, verdict, shown>>
  <1>1. thread[Main].pc = "user" /\ thread[Other].pc = "absent" /\ process[Other] = Main
        /\ process \in [Threads -> Threads]
    BY DEF Clone, TypeInv, ProcessInv
  <1>2. process = [process EXCEPT ![Other] = Main]
    BY <1>1
  <1>3. Settled(Idle)
    BY IdleType DEF Settled, Named
  <1>4. ForkRecord \in Record
    BY Limits DEF ForkRecord, Record, TypeInv, Forms
  <1>5. Named(ForkRecord, TRUE)
    BY DEF ForkRecord, Named
  <1> QED
    BY <1>1, <1>2, <1>3, <1>4, <1>5 DEF Clone, ForkRecord

LEMMA CloneTypes ==
  ASSUME TypeInv, Clone
  PROVE  TypeInv'
  <1>1. RingInv'
    BY CloneStep, OutputRing DEF TypeInv
  <1>2. ThreadInv' /\ thread'[Other] = Idle
    BY CloneStep, ThreadSet, Limits DEF TypeInv
  <1>3. \A fd \in Fds : <<Other, fd>> \notin shown
    BY CloneStep DEF TypeInv, ProcessInv
  <1>4. process' \in [Threads -> Threads] /\ process'[Main] = Main
    <2>1. process \in [Threads -> Threads] /\ process[Main] = Main
      BY DEF TypeInv, ProcessInv
    <2>2. process' = process \/ process' = [process EXCEPT ![Other] = Other]
      BY CloneStep
    <2> QED
      BY <2>1, <2>2, Limits
  <1>5. UNCHANGED <<readable, calls, followed, cache, verdict, shown>>
    BY DEF Clone
  <1>6. ProcessInv'
    BY <1>2, <1>3, <1>4, <1>5, IdleType DEF ProcessInv
  <1>7. files' \in [Threads -> [Fds -> Targets]]
    BY CloneStep, Limits DEF TypeInv
  <1> QED
    BY <1>1, <1>2, <1>5, <1>6, <1>7 DEF TypeInv, cache

-----------------------------------------------------------------------------
(* Type correctness of the collector's steps.                               *)

CacheState ==
  [known : SUBSET Threads, owner : [Threads -> Threads],
   cached : [Threads -> [Fds -> Targets]], read : BOOLEAN]

LEMMA NowType ==
  ASSUME TypeInv
  PROVE  Now \in CacheState
  BY DEF TypeInv, Now, CacheState

LEMMA InsertContextType ==
  ASSUME NEW s \in CacheState, NEW t \in Threads, NEW p \in Threads, NEW table \in [Fds -> Targets]
  PROVE  InsertContext(s, t, p, table) \in CacheState
  <1>1. s.known \in SUBSET Threads /\ s.owner \in [Threads -> Threads]
        /\ s.cached \in [Threads -> [Fds -> Targets]] /\ s.read \in BOOLEAN
    BY DEF CacheState
  <1>2. s.known \cup {t} \in SUBSET Threads /\ [s.owner EXCEPT ![t] = p] \in [Threads -> Threads]
        /\ [s.cached EXCEPT ![p] = table] \in [Threads -> [Fds -> Targets]]
    BY <1>1
  <1> QED
    BY <1>2 DEF CacheState, InsertContext

LEMMA AttemptType ==
  ASSUME TypeInv, NEW s \in CacheState, NEW t \in Threads
  PROVE  Attempt(s, t) \in CacheState
  <1>1. process[t] \in Threads /\ files[process[t]] \in [Fds -> Targets]
    BY DEF TypeInv, ProcessInv
  <1>2. InsertContext(s, t, process[t], files[process[t]]) \in CacheState
    BY <1>1, InsertContextType
  <1>3. \A d \in CacheState : [d EXCEPT !.read = TRUE] \in CacheState
    BY DEF CacheState
  <1> QED
    BY <1>2, <1>3 DEF Attempt

LEMMA LookupType ==
  ASSUME NEW s \in CacheState, NEW t \in Threads, NEW fd \in Fds
  PROVE  Lookup(s, t, fd) \in Targets
  <1>1. s.owner[t] \in Threads /\ s.cached \in [Threads -> [Fds -> Targets]]
    BY DEF CacheState
  <1> QED
    BY <1>1, Limits DEF Lookup

LEMMA PutType ==
  ASSUME NEW s \in CacheState, NEW t \in Threads, NEW fd \in Fds, NEW path \in Targets
  PROVE  Put(s, t, fd, path) \in CacheState
  <1>1. s.owner[t] \in Threads /\ s.cached \in [Threads -> [Fds -> Targets]]
    BY DEF CacheState
  <1>2. [s.cached EXCEPT ![s.owner[t]][fd] = path] \in [Threads -> [Fds -> Targets]]
    BY <1>1
  <1>3. [s EXCEPT !.cached = [s.cached EXCEPT ![s.owner[t]][fd] = path]] \in CacheState
    BY <1>2 DEF CacheState
  <1> QED
    BY <1>3 DEF Put

LEMMA ResolvedType ==
  ASSUME TypeInv, NEW r \in Record, Named(r, TRUE)
  PROVE  /\ ResolveSyscallPaths(r).cache \in CacheState
         /\ r.kind = "use" => ResolveSyscallPaths(r).said \in Paths \cup {"gap"}
         /\ r.kind = "open" => ResolveSyscallPaths(r).said \in Targets \cup {"gap"}
  <1>1. r.thread \in Threads /\ r.path \in Targets /\ Now \in CacheState
        /\ Attempt(Now, r.thread) \in CacheState
    BY NowType, AttemptType DEF Record
  <1>2. \A said, s : Resolved(said, s).cache = s /\ Resolved(said, s).said = said
    BY DEF Resolved
  <1>3. CASE r.kind = "use"
    <2>1. r.fd \in Fds
      BY <1>3 DEF Named
    <2>2. /\ ResolveFd(r).cache \in CacheState
          /\ ResolveFd(r).said \in Paths \cup {"gap"}
      <3> DEFINE s == IF Lookup(Now, r.thread, r.fd) # NoPath THEN Now ELSE Attempt(Now, r.thread)
                 path == Lookup(s, r.thread, r.fd)
      <3>1. s \in CacheState
        BY <1>1
      <3>2. ResolveFd(r) = Resolved(IF path = NoPath THEN "gap" ELSE path, s)
        BY DEF ResolveFd
      <3> HIDE DEF s
      <3>3. path \in Targets
        BY <3>1, <1>1, <2>1, LookupType
      <3> QED
        BY <3>1, <3>2, <3>3, <1>2 DEF Targets
    <2> QED
      BY <1>3, <2>2 DEF ResolveSyscallPaths
  <1>4. CASE r.kind = "open"
    <2> DEFINE s == IF r.form = "full" \/ r.thread \in known THEN Now ELSE Attempt(Now, r.thread)
               said == IF r.form = "full" \/ r.thread \in s.known THEN r.path ELSE "gap"
    <2>1. s \in CacheState
      BY <1>1
    <2>2. ResolveSyscallPaths(r) = Resolved(said, s)
      BY <1>4 DEF ResolveSyscallPaths, ResolvePath
    <2>3. said \in Targets \cup {"gap"}
      BY <1>1
    <2> HIDE DEF s, said
    <2> QED
      BY <1>4, <2>1, <2>2, <2>3, <1>2
  <1>5. CASE r.kind \notin {"use", "open"}
    BY <1>1, <1>2, <1>5 DEF ResolveSyscallPaths
  <1> QED
    BY <1>3, <1>4, <1>5

LEMMA CacheAfterType ==
  ASSUME NEW s \in CacheState, NEW r \in Record, Named(r, TRUE), NEW said,
         r.kind = "open" => said \in Targets \cup {"gap"}
  PROVE  CacheAfter(s, r, said) \in CacheState
  <1>1. r.thread \in Threads
    BY DEF Record
  <1>2. CASE r.kind = "open" /\ said # "gap"
    <2>1. r.to \in Fds /\ said \in Targets
      BY <1>2 DEF Named
    <2> QED
      BY <1>1, <1>2, <2>1, PutType DEF CacheAfter
  <1>3. CASE r.kind = "close"
    <2>1. r.fd \in Fds
      BY <1>3 DEF Named
    <2> QED
      BY <1>1, <1>3, <2>1, PutType, Limits DEF CacheAfter, CloseFd
  <1>4. CASE r.kind \in {"dup", "dup2"}
    <2>1. r.fd \in Fds /\ r.to \in Fds
      BY <1>4 DEF Named
    <2>2. Lookup(s, r.thread, r.fd) \in Targets
      BY <1>1, <2>1, LookupType
    <2> QED
      BY <1>1, <1>4, <2>1, <2>2, PutType DEF CacheAfter, DuplicateFd
  <1>5. CASE ~(r.kind = "open" /\ said # "gap") /\ r.kind \notin {"close", "dup", "dup2"}
    BY <1>5 DEF CacheAfter
  <1> QED
    BY <1>2, <1>3, <1>4, <1>5

LEMMA SetCacheTypes ==
  ASSUME NEW s \in CacheState, SetCache(s)
  PROVE  /\ known' \subseteq Threads /\ owner' \in [Threads -> Threads]
         /\ cached' \in [Threads -> [Fds -> Targets]]
  BY DEF CacheState, SetCache

LEMMA ConsumeTypes ==
  ASSUME TypeInv, ring # << >>, ring' = Tail(ring), NEW s \in CacheState, SetCache(s),
         verdict' \in [said : Said, actual : Targets, shown : BOOLEAN],
         UNCHANGED <<kernel, shown>>
  PROVE  TypeInv'
  <1>1. RingInv'
    BY TakenRing DEF TypeInv
  <1>2. UNCHANGED <<thread, process, files, calls, followed, shown>>
    BY DEF kernel
  <1>3. ThreadInv' /\ ProcessInv'
    BY <1>2 DEF TypeInv, ThreadInv, ProcessInv, InFlight, Leaving
  <1> QED
    BY <1>1, <1>2, <1>3, SetCacheTypes DEF TypeInv

LEMMA HeadType ==
  ASSUME TypeInv, ring # << >>
  PROVE  /\ Head(ring) = ring[1] /\ 1 \in DOMAIN ring
         /\ Head(ring) \in Record /\ Named(Head(ring), TRUE)
  <1>1. ring \in Seq(Record) /\ Len(ring) \in Nat /\ DOMAIN ring = 1 .. Len(ring)
    BY RingType DEF TypeInv
  <1>2. Head(ring) = ring[1] /\ Len(ring) >= 1
    BY <1>1, EmptySeq
  <1>3. 1 \in DOMAIN ring
    BY <1>1, <1>2
  <1> QED
    BY <1>2, <1>3, RingType DEF TypeInv

LEMMA ConsumeSyscallTypes ==
  ASSUME TypeInv, ConsumeSyscall
  PROVE  TypeInv'
  <1> DEFINE r == Head(ring)
             resolved == ResolveSyscallPaths(r)
             after == Refreshed(CacheAfter(resolved.cache, r, resolved.said), r.thread)
  <1>1. ring # << >> /\ ring' = Tail(ring) /\ UNCHANGED <<kernel, shown>> /\ SetCache(after)
        /\ verdict' = IF r.kind = "use" THEN Verdict(resolved.said, r.table[r.fd], r.shown)
                      ELSE verdict
    BY DEF ConsumeSyscall
  <1>2. r \in Record /\ Named(r, TRUE)
    BY <1>1, HeadType
  <1> HIDE DEF r
  <1>3. /\ resolved.cache \in CacheState
        /\ r.kind = "use" => resolved.said \in Paths \cup {"gap"}
        /\ r.kind = "open" => resolved.said \in Targets \cup {"gap"}
    BY <1>2, ResolvedType
  <1> HIDE DEF resolved
  <1>4. CacheAfter(resolved.cache, r, resolved.said) \in CacheState
    BY <1>2, <1>3, CacheAfterType
  <1>5. after \in CacheState
    BY <1>2, <1>4, AttemptType DEF Refreshed, Record
  <1>6. verdict' \in [said : Said, actual : Targets, shown : BOOLEAN]
    <2>1. CASE r.kind = "use"
      <3>1. r.table[r.fd] \in Targets /\ r.shown \in BOOLEAN
        BY <2>1, <1>2 DEF Record, Named
      <3> QED
        BY <1>1, <1>3, <2>1, <3>1 DEF Verdict, Said
    <2>2. CASE r.kind # "use"
      BY <1>1, <2>2 DEF TypeInv
    <2> QED
      BY <2>1, <2>2
  <1> HIDE DEF after
  <1> QED
    BY <1>1, <1>5, <1>6, ConsumeTypes

LEMMA ConsumeForkTypes ==
  ASSUME TypeInv, ConsumeFork
  PROVE  TypeInv'
  <1> DEFINE live == files[process[Other]]
             s == IF readable THEN InsertContext(Now, Other, Other, live) ELSE ForkThread
  <1>1. ring # << >> /\ ring' = Tail(ring) /\ UNCHANGED <<kernel, shown>> /\ SetCache(s)
        /\ UNCHANGED verdict
    BY DEF ConsumeFork
  <1>2. live \in [Fds -> Targets] /\ cached[owner[Main]] \in [Fds -> Targets]
    BY Limits DEF TypeInv, ProcessInv
  <1>3. s \in CacheState
    BY <1>2, NowType, InsertContextType, Limits DEF ForkThread
  <1> HIDE DEF s
  <1>4. verdict' \in [said : Said, actual : Targets, shown : BOOLEAN]
    BY <1>1 DEF TypeInv
  <1> QED
    BY <1>1, <1>3, <1>4, ConsumeTypes

LEMMA InitTypes == Init => TypeInv
  <1> SUFFICES ASSUME Init PROVE TypeInv
    OBVIOUS
  <1>1. thread = [t \in Threads |-> IF t = Main THEN Idle ELSE Absent]
        /\ process = [t \in Threads |-> Main] /\ owner = [t \in Threads |-> Main]
        /\ calls = 0 /\ followed = {} /\ ring = << >> /\ shown = {}
        /\ verdict = Verdict("none", NoPath, FALSE)
    BY DEF Init
  <1>2. Absent \in ThreadState /\ Absent.pc = "absent" /\ Absent.kind = "none"
    BY Limits DEF Absent, Idle, ThreadState, Forms
  <1>3. thread \in [Threads -> ThreadState]
    BY <1>1, <1>2, IdleType
  <1>4. \A t \in Threads : thread[t] = Idle \/ thread[t] = Absent
    BY <1>1
  <1>5. ThreadInv
    BY <1>1, <1>2, <1>3, <1>4, IdleType, Limits DEF ThreadInv, Named, InFlight, Leaving
  <1>6. ProcessInv
    BY <1>1, Limits DEF ProcessInv
  <1>7. Len(ring) = 0 /\ ring \in Seq(Record) /\ DOMAIN ring = {}
    BY <1>1, EmptySeq
  <1>8. RingInv
    BY <1>7, Limits DEF RingInv
  <1>9. files \in [Threads -> [Fds -> Targets]]
    <2>1. PICK p \in Targets : files = [t \in Threads |-> IF t = Main THEN [Closed EXCEPT ![1] = p] ELSE Closed]
      BY DEF Init
    <2>2. [Closed EXCEPT ![1] = p] \in [Fds -> Targets]
      BY Limits
    <2> QED
      BY <2>1, <2>2, Limits
  <1>10. cached \in [Threads -> [Fds -> Targets]] /\ known \subseteq Threads
    BY <1>9, Limits DEF Init
  <1>11. IsFiniteSet(followed) /\ Cardinality(followed) = 0
    BY <1>1, FS_EmptySet
  <1>12. verdict \in [said : Said, actual : Targets, shown : BOOLEAN]
    BY <1>1, Limits DEF Verdict, Said
  <1>13. followed \subseteq Threads \X Fds /\ shown \subseteq Threads \X Fds
    BY <1>1
  <1>14. Cardinality(followed) <= FollowSlots /\ calls \in 0 .. MaxCalls
    BY <1>1, <1>11, Limits
  <1>15. owner \in [Threads -> Threads]
    BY <1>1, Limits
  <1> QED
    BY <1>5, <1>6, <1>8, <1>9, <1>10, <1>11, <1>12, <1>13, <1>14, <1>15 DEF TypeInv

LEMMA NextTypes == TypeInv /\ [Next]_vars => TypeInv'
  <1> SUFFICES ASSUME TypeInv, [Next]_vars PROVE TypeInv'
    OBVIOUS
  <1>1. CASE UNCHANGED vars
    BY <1>1 DEF TypeInv, ThreadInv, ProcessInv, RingInv, InFlight, Leaving, vars, kernel, cache
  <1>2. ASSUME NEW t \in Threads, ThreadStep(t) PROVE TypeInv'
    BY <1>2, EnterTypes, EffectTypes, SubmitTypes, FollowTypes DEF ThreadStep
  <1>3. CASE Clone
    BY <1>3, CloneTypes
  <1>4. CASE ConsumeSyscall
    BY <1>4, ConsumeSyscallTypes
  <1>5. CASE ConsumeFork
    BY <1>5, ConsumeForkTypes
  <1> QED
    BY <1>1, <1>2, <1>3, <1>4, <1>5 DEF Next

-----------------------------------------------------------------------------
(* What is wanted is followed.                                              *)

Followings == Exclusive /\ WantedFollowed /\ DroppedUnwanted /\ RemovedUnwanted

\* Causes are never forgotten.
LEMMA CleanBefore ==
  ASSUME TypeInv, [Next]_vars
  PROVE  causes \subseteq causes' /\ (Clean' => Clean)
  <1>1. causes \subseteq causes'
    <2>1. CASE UNCHANGED vars
      BY <2>1 DEF vars
    <2>2. ASSUME NEW t \in Threads, ThreadStep(t) PROVE causes \subseteq causes'
      <3>1. CASE Enter(t)
        BY <3>1 DEF Enter
      <3>2. CASE Effect(t)
        BY <3>2 DEF Effect, Open, Close, Dup, Dup2, Use, Fail, Reusing
      <3>3. CASE Submit(t)
        BY <3>3 DEF Submit, Output
      <3>4. CASE Follow(t)
        BY <3>4 DEF Follow, UpdateWatchFds, Insert, Remove
      <3> QED
        BY <2>2, <3>1, <3>2, <3>3, <3>4 DEF ThreadStep
    <2>3. CASE Clone
      BY <2>3 DEF Clone, Output
    <2>4. CASE ConsumeSyscall
      BY <2>4 DEF ConsumeSyscall
    <2>5. CASE ConsumeFork
      BY <2>5 DEF ConsumeFork
    <2> QED
      BY <2>1, <2>2, <2>3, <2>4, <2>5 DEF Next
  <1> QED
    BY <1>1 DEF Clean

\* A step has an effect on these descriptors of p at most.
Disturbs(p, fds) ==
  \A q \in Threads, fd \in Fds :
    \/ q = p /\ fd \in fds
    \/ files'[q][fd] = files[q][fd] /\ (Wanted(q, fd)' <=> Wanted(q, fd))

\* No other call of the process that goes on names them.
Alone(t, p, fds) ==
  \A u \in Threads \ {t} : InFlight(u) /\ process[u] = p => fds \cap Names(u) = {}

\* What a call leaves is followed, about to be followed, or need not be.
WellOver(t, p, fds) ==
  /\ \/ thread'[t] = Idle
     \/ thread'[t].pc = "submit" /\ {thread'[t].fd, thread'[t].to} \cap Fds \subseteq Names(t) \cup fds
  /\ \A fd \in fds : Wanted(p, fd)' => Following(t, p, fd)'
  /\ thread'[t].kind = "close" => files'[p][thread'[t].fd] = NoPath
  /\ (thread[t].kind = "dup" /\ Wanted(p, thread[t].to) => Follows(p, thread[t].fd))'

\* A call of t takes effect, on the descriptors fds of its process and on no other.
LEMMA EffectKeepsFollowings ==
  ASSUME TypeInv, Followings, NEW t \in Threads, NEW p \in Threads, p = process[t],
         NEW fds \in SUBSET Fds, thread[t].pc = "call",
         UNCHANGED <<process, followed>>, OthersWait(t),
         Disturbs(p, fds), Alone(t, p, fds), WellOver(t, p, fds)
  PROVE  Followings'
  <1> USE DEF OthersWait, Disturbs, Alone
  <1>0. /\ \/ thread'[t] = Idle
           \/ /\ thread'[t].pc = "submit"
              /\ {thread'[t].fd, thread'[t].to} \cap Fds \subseteq Names(t) \cup fds
        /\ \A fd \in fds : Wanted(p, fd)' => Following(t, p, fd)'
        /\ thread'[t].kind = "close" => files'[p][thread'[t].fd] = NoPath
        /\ (thread[t].kind = "dup" /\ Wanted(p, thread[t].to) => Follows(p, thread[t].fd))'
    BY DEF WellOver
  <1>1. thread'[t].pc \in {"user", "submit"} /\ (thread'[t].pc = "user" => thread'[t] = Idle)
    BY <1>0, IdleType
  <1>2. Exclusive'
    <2>1. ASSUME NEW u \in Threads \ {t}, InFlight(t)', InFlight(u), process[u] = p
          PROVE  {thread'[t].fd, thread'[t].to} \cap Fds \cap Names(u) = {}
      <3>1. Names(t) \cap Names(u) = {} /\ fds \cap Names(u) = {}
        BY <2>1 DEF Followings, Exclusive, InFlight
      <3>2. {thread'[t].fd, thread'[t].to} \cap Fds \subseteq Names(t) \cup fds
        BY <1>0, <1>1, <2>1, IdleType DEF InFlight
      <3> QED
        BY <3>1, <3>2
    <2>2. ASSUME NEW v \in Threads, NEW u \in Threads, v # u, InFlight(v)', InFlight(u)',
                 process[v] = process[u]
          PROVE  Names(v)' \cap Names(u)' = {}
      <3>1. CASE v # t /\ u # t
        BY <2>2, <3>1 DEF Followings, Exclusive, InFlight, Names
      <3>2. CASE v = t
        BY <2>1, <2>2, <3>2 DEF InFlight, Names
      <3>3. CASE u = t
        BY <2>1, <2>2, <3>3 DEF InFlight, Names
      <3> QED
        BY <3>1, <3>2, <3>3
    <2> QED
      BY <2>2 DEF Exclusive
  <1>3. WantedFollowed'
    <2> SUFFICES ASSUME NEW q \in Threads, NEW fd \in Fds, Wanted(q, fd)'
                 PROVE  Follows(q, fd)' \/ \E u \in Threads : Following(u, q, fd)'
      BY DEF WantedFollowed
    <2>1. CASE q = p /\ fd \in fds
      BY <2>1, <1>0
    <2>2. CASE ~(q = p /\ fd \in fds)
      <3>1. Wanted(q, fd)
        BY <2>2
      <3>2. CASE Follows(q, fd)
        BY <3>2 DEF Follows
      <3>3. CASE \E u \in Threads : Following(u, q, fd)
        <4>1. PICK u \in Threads : Following(u, q, fd)
          BY <3>3
        <4>2. u # t
          BY <4>1 DEF Following, Leaving
        <4>3. Following(u, q, fd)'
          BY <4>1, <4>2 DEF Following, Leaving
        <4> QED
          BY <4>3
      <3> QED
        BY <3>1, <3>2, <3>3 DEF Followings, WantedFollowed
    <2> QED
      BY <2>1, <2>2
  <1>4. DroppedUnwanted'
    <2> SUFFICES ASSUME NEW u \in Threads, thread'[u].pc = "call", ~thread'[u].saved
                 PROVE  /\ thread'[u].kind = "open" => thread'[u].form = "odd" \/ thread'[u].path \notin Watched
                        /\ thread'[u].kind \in {"dup", "use"} => ~Wanted(process[u], thread[u].fd)'
      BY DEF DroppedUnwanted
    <2>1. u # t /\ thread'[u] = thread[u]
      BY <1>1
    <2>2. /\ thread[u].kind = "open" => thread[u].form = "odd" \/ thread[u].path \notin Watched
          /\ thread[u].kind \in {"dup", "use"} => ~Wanted(process[u], thread[u].fd)
      BY <2>1 DEF Followings, DroppedUnwanted
    <2>3. ASSUME thread[u].kind \in {"dup", "use"} PROVE ~Wanted(process[u], thread[u].fd)'
      <3>1. thread[u].fd \in Fds /\ process[u] \in Threads
        BY <2>3 DEF TypeInv, ThreadInv, ProcessInv, Named
      <3>2. thread[u].fd \in Names(u) /\ InFlight(u)
        BY <2>1, <3>1 DEF Names, InFlight
      <3>3. ~(process[u] = p /\ thread[u].fd \in fds)
        BY <2>1, <3>2
      <3>4. \A fd \in Fds : fd = thread[u].fd => (Wanted(process[u], fd)' <=> Wanted(process[u], fd))
        BY <3>1, <3>3
      <3>5. thread[u].fd = thread'[u].fd
        BY <2>1
      <3> QED
        BY <2>2, <2>3, <3>1, <3>4, <3>5
    <2> QED
      BY <2>1, <2>2, <2>3
  <1>5. RemovedUnwanted'
    <2> SUFFICES ASSUME NEW u \in Threads, Leaving(u)'
                 PROVE  /\ thread'[u].kind = "close" => files'[process[u]][thread'[u].fd] = NoPath
                        /\ (thread[u].kind = "dup" /\ Wanted(process[u], thread[u].to) => Follows(process[u], thread[u].fd))'
      BY DEF RemovedUnwanted
    <2>1. CASE u = t
      BY <1>0, <2>1
    <2>2. CASE u # t
      <3>1. thread'[u] = thread[u] /\ Leaving(u) /\ InFlight(u) /\ process[u] \in Threads
        BY <2>2 DEF Leaving, InFlight, TypeInv, ProcessInv
      <3>2. /\ thread[u].kind = "close" => files[process[u]][thread[u].fd] = NoPath
            /\ thread[u].kind = "dup" /\ Wanted(process[u], thread[u].to) => Follows(process[u], thread[u].fd)
        BY <3>1 DEF Followings, RemovedUnwanted
      <3>3. ASSUME NEW fd \in Fds, fd \in Names(u) PROVE ~(process[u] = p /\ fd \in fds)
        BY <2>2, <3>1, <3>3
      <3>4. ASSUME thread[u].kind = "close" PROVE files'[process[u]][thread'[u].fd] = NoPath
        <4>1. thread[u].fd \in Fds /\ thread[u].fd \in Names(u)
          BY <3>4 DEF TypeInv, ThreadInv, Named, Names
        <4> QED
          BY <3>1, <3>2, <3>3, <3>4, <4>1
      <3>5. ASSUME thread[u].kind = "dup", Wanted(process[u], thread[u].to)' PROVE Follows(process[u], thread[u].fd)'
        <4>1. thread[u].to \in Fds /\ thread[u].to \in Names(u)
          BY <3>1, <3>5 DEF TypeInv, ThreadInv, Named, Names
        <4>2. \A fd \in Fds : fd = thread[u].to => (Wanted(process[u], fd)' <=> Wanted(process[u], fd))
          BY <3>1, <3>3, <4>1
        <4>3. Wanted(process[u], thread[u].to)
          BY <3>1, <3>5, <4>1, <4>2
        <4> QED
          BY <3>1, <3>2, <3>5, <4>3 DEF Follows
      <3> QED
        BY <3>1, <3>4, <3>5
    <2> QED
      BY <2>1, <2>2
  <1> QED
    BY <1>2, <1>3, <1>4, <1>5 DEF Followings

\* Of all descriptors only this one gets another file, is shown or hidden.
SetsOnly(p, fd, path) ==
  /\ files'[p] = [files[p] EXCEPT ![fd] = path]
  /\ \A q \in Threads \ {p} : files'[q] = files[q]
  /\ \A x : x # <<p, fd>> => (x \in shown' <=> x \in shown)

LEMMA SetOne ==
  ASSUME TypeInv, NEW p \in Threads, NEW fd \in Fds, NEW path \in Targets, SetsOnly(p, fd, path)
  PROVE  /\ {fd} \in SUBSET Fds
         /\ Disturbs(p, {fd})
         /\ files'[p][fd] = path
         /\ Wanted(p, fd)' <=> path \in Watched /\ <<p, fd>> \in shown'
  <1>1. files[p] \in [Fds -> Targets]
    BY DEF TypeInv
  <1>2. files'[p][fd] = path /\ \A f \in Fds \ {fd} : files'[p][f] = files[p][f]
    BY <1>1 DEF SetsOnly
  <1>3. \A q \in Threads, f \in Fds : (q = p /\ f \in {fd}) \/ files'[q][f] = files[q][f]
    BY <1>2 DEF SetsOnly
  <1>4. \A q \in Threads, f \in Fds :
          (q = p /\ f \in {fd}) \/ (<<q, f>> \in shown' <=> <<q, f>> \in shown)
    BY DEF SetsOnly
  <1>5. Disturbs(p, {fd})
    BY <1>3, <1>4 DEF Wanted, Disturbs
  <1> QED
    BY <1>2, <1>5 DEF Wanted

\* The descriptor a call names is named by no other of its process.
LEMMA NamedAlone ==
  ASSUME Exclusive, NEW t \in Threads, InFlight(t), NEW fd \in Names(t)
  PROVE  Alone(t, process[t], {fd})
  BY DEF Exclusive, Alone

\* A number that was free is named by no call that goes on, or this is a cause.
LEMMA NewAlone ==
  ASSUME NEW t \in Threads, NEW fd \in Fds, causes' = Reusing(t, fd), Clean'
  PROVE  Alone(t, process[t], {fd})
  <1>1. ~Busy(t, fd)
    BY DEF Reusing, Clean
  <1>2. \A u \in Threads : InFlight(u) => thread[u].pc \notin {"user", "absent"}
    BY DEF InFlight
  <1> QED
    BY <1>1, <1>2 DEF Busy, Names, Alone

LEMMA OpenFollows ==
  ASSUME TypeInv, Followings, Clean', NEW t \in Threads, thread[t].pc = "call", Open(t),
         UNCHANGED <<process, followed>>
  PROVE  Followings'
  <1>1. PICK p \in Threads : p = process[t]
    BY TableType
  <1>2. PICK fd \in Fds, c \in ThreadState :
          /\ c.kind = "open" /\ c.fd = thread[t].fd /\ c.to = fd /\ c.saved = thread[t].saved
          /\ Named(c, TRUE)
          /\ [Table(t) EXCEPT ![fd] = thread[t].path] \in [Fds -> Targets]
          /\ Return(t, c, [Table(t) EXCEPT ![fd] = thread[t].path])
          /\ Show(t, fd, thread[t].form # "odd")
          /\ causes' = Reusing(t, fd)
    BY OpenEffect
  <1>3. PICK table \in [Fds -> Targets] : table = [Table(t) EXCEPT ![fd] = thread[t].path]
    BY <1>2
  <1>4. thread[t].kind = "open" /\ c.kind \in Kinds /\ thread[t].path \in Targets
    BY <1>2, ThreadType DEF Open, Kinds, TypeInv
  <1>5. Named(c, TRUE) /\ Return(t, c, table)
    BY <1>2, <1>3
  <1>6. /\ OthersWait(t) /\ LeftAs(t, c)
        /\ files'[p] = table /\ \A q \in Threads \ {p} : files'[q] = files[q]
    BY <1>1, <1>4, <1>5, ReturnLeaves
  <1>7. /\ \A x : x # <<p, fd>> => (x \in shown' <=> x \in shown)
        /\ <<p, fd>> \in shown' => thread[t].form # "odd"
    BY <1>1, <1>2 DEF Show
  <1>8. /\ {fd} \in SUBSET Fds /\ Disturbs(p, {fd})
        /\ Wanted(p, fd)' => thread[t].path \in Watched /\ thread[t].form # "odd"
    <2>1. SetsOnly(p, fd, thread[t].path)
      BY <1>1, <1>3, <1>6, <1>7, TableType DEF SetsOnly
    <2> QED
      BY <1>4, <1>7, <2>1, SetOne
  <1>9. Alone(t, p, {fd})
    BY <1>1, <1>2, NewAlone
  <1>10. Wanted(p, fd)' => Following(t, p, fd)'
    <2> SUFFICES ASSUME Wanted(p, fd)' PROVE Following(t, p, fd)'
      OBVIOUS
    <2>1. thread[t].saved
      BY <1>4, <1>8 DEF Followings, DroppedUnwanted
    <2>2. thread'[t].pc = "submit" /\ thread'[t].kind = "open" /\ thread'[t].to = fd
      BY <2>1, <1>2, <1>6 DEF LeftAs
    <2> QED
      BY <2>2, <1>1 DEF Following, Leaving
  <1>11. WellOver(t, p, {fd})
    <2>1. /\ thread'[t].kind \notin {"close", "dup"}
          /\ \/ thread'[t] = Idle
             \/ thread'[t].pc = "submit" /\ {thread'[t].fd, thread'[t].to} \cap Fds \subseteq Names(t) \cup {fd}
      BY <1>2, <1>6, IdleType DEF Names, LeftAs
    <2> QED
      BY <2>1, <1>10 DEF WellOver
  <1> QED
    BY <1>1, <1>6, <1>8, <1>9, <1>11, EffectKeepsFollowings

LEMMA CloseFollows ==
  ASSUME TypeInv, Followings, NEW t \in Threads, thread[t].pc = "call", Close(t),
         UNCHANGED <<process, followed>>
  PROVE  Followings'
  <1>1. PICK p \in Threads : p = process[t]
    BY TableType
  <1>2. PICK c \in ThreadState, fd \in Fds :
          /\ c = thread[t] /\ fd = c.fd
          /\ c.kind = "close" /\ Named(c, TRUE)
          /\ [Table(t) EXCEPT ![fd] = NoPath] \in [Fds -> Targets]
          /\ Return(t, c, [Table(t) EXCEPT ![fd] = NoPath])
          /\ Show(t, fd, FALSE)
    BY CloseEffect
  <1>3. PICK table \in [Fds -> Targets] : table = [Table(t) EXCEPT ![fd] = NoPath]
    BY <1>2
  <1>4. c.kind \in Kinds /\ Named(c, TRUE) /\ Return(t, c, table)
    BY <1>2, <1>3 DEF Kinds
  <1>5. /\ OthersWait(t) /\ LeftAs(t, c)
        /\ files'[p] = table /\ \A q \in Threads \ {p} : files'[q] = files[q]
    BY <1>1, <1>4, ReturnLeaves
  <1>6. \A x : x # <<p, fd>> => (x \in shown' <=> x \in shown)
    BY <1>1, <1>2 DEF Show
  <1>7. /\ {fd} \in SUBSET Fds /\ Disturbs(p, {fd})
        /\ files'[p][fd] = NoPath /\ ~Wanted(p, fd)'
    <2>1. SetsOnly(p, fd, NoPath)
      BY <1>1, <1>3, <1>5, <1>6, TableType DEF SetsOnly
    <2> QED
      BY <2>1, Limits, SetOne
  <1>8. Alone(t, p, {fd})
    <2>1. InFlight(t) /\ fd \in Names(t)
      BY <1>2 DEF InFlight, Names
    <2> QED
      BY <2>1, <1>1, NamedAlone DEF Followings
  <1>9. WellOver(t, p, {fd})
    <2>1. /\ thread'[t].kind # "dup"
          /\ thread'[t].kind = "close" => thread'[t].fd = fd
          /\ \/ thread'[t] = Idle
             \/ thread'[t].pc = "submit" /\ {thread'[t].fd, thread'[t].to} \cap Fds \subseteq Names(t) \cup {fd}
      BY <1>2, <1>5, IdleType DEF Names, LeftAs
    <2> QED
      BY <2>1, <1>7 DEF WellOver
  <1> QED
    BY <1>1, <1>5, <1>7, <1>8, <1>9, EffectKeepsFollowings

LEMMA DupFollows ==
  ASSUME TypeInv, Followings, Clean', NEW t \in Threads, thread[t].pc = "call", Dup(t),
         UNCHANGED <<process, followed>>
  PROVE  Followings'
  <1>1. PICK p \in Threads : p = process[t]
    BY TableType
  <1>2. PICK fd \in Fds, c \in ThreadState :
          /\ Table(t)[fd] = NoPath /\ thread[t].fd \in Fds /\ fd # thread[t].fd
          /\ c.kind = "dup" /\ c.fd = thread[t].fd /\ c.to = fd /\ c.saved = thread[t].saved
          /\ Named(c, TRUE)
          /\ [Table(t) EXCEPT ![fd] = Table(t)[thread[t].fd]] \in [Fds -> Targets]
          /\ Return(t, c, [Table(t) EXCEPT ![fd] = Table(t)[thread[t].fd]])
          /\ Show(t, fd, Shown(t, thread[t].fd))
          /\ causes' = Reusing(t, fd)
    BY DupEffect
  <1>3. PICK source \in Fds : source = thread[t].fd
    BY <1>2
  <1>4. PICK path \in Targets : path = files[p][source]
    BY <1>1, TableType
  <1>5. PICK table \in [Fds -> Targets] : table = [Table(t) EXCEPT ![fd] = path]
    BY <1>1, <1>3, <1>4, TableType
  <1>6. thread[t].kind = "dup" /\ c.kind \in Kinds /\ Table(t)[thread[t].fd] = path
    BY <1>1, <1>2, <1>3, <1>4, TableType DEF Dup, Kinds
  <1>7. Named(c, TRUE) /\ Return(t, c, table)
    BY <1>2, <1>5, <1>6
  <1>8. /\ OthersWait(t) /\ LeftAs(t, c)
        /\ files'[p] = table /\ \A q \in Threads \ {p} : files'[q] = files[q]
    BY <1>1, <1>6, <1>7, ReturnLeaves
  <1>9. /\ \A x : x # <<p, fd>> => (x \in shown' <=> x \in shown)
        /\ <<p, fd>> \in shown' => <<p, source>> \in shown
    BY <1>1, <1>2, <1>3 DEF Show, Shown
  <1>10. /\ {fd} \in SUBSET Fds /\ Disturbs(p, {fd})
         /\ Wanted(p, fd)' => Wanted(p, source)
    <2>1. /\ {fd} \in SUBSET Fds /\ Disturbs(p, {fd})
          /\ Wanted(p, fd)' <=> path \in Watched /\ <<p, fd>> \in shown'
      <3>1. SetsOnly(p, fd, path)
        BY <1>1, <1>5, <1>8, <1>9, TableType DEF SetsOnly
      <3> QED
        BY <3>1, SetOne
    <2> QED
      BY <2>1, <1>4, <1>9 DEF Wanted
  <1>11. Alone(t, p, {fd})
    BY <1>1, <1>2, NewAlone
  <1>12. Wanted(p, source) => thread[t].saved /\ Follows(p, source)
    <2> SUFFICES ASSUME Wanted(p, source) PROVE thread[t].saved /\ Follows(p, source)
      OBVIOUS
    <2>1. thread[t].saved
      BY <1>1, <1>3, <1>6 DEF Followings, DroppedUnwanted
    <2>2. ASSUME NEW u \in Threads, Following(u, p, source) PROVE FALSE
      <3>1. u # t /\ InFlight(u) /\ InFlight(t) /\ process[u] = process[t]
        BY <2>2, <1>1 DEF Following, Leaving, InFlight
      <3>2. source \in Names(u) /\ source \in Names(t)
        BY <2>2, <1>3 DEF Following, Names
      <3> QED
        BY <3>1, <3>2 DEF Followings, Exclusive
    <2> QED
      BY <2>1, <2>2 DEF Followings, WantedFollowed
  <1>13. /\ \/ thread'[t] = Idle
            \/ thread'[t].pc = "submit" /\ {thread'[t].fd, thread'[t].to} \cap Fds \subseteq Names(t) \cup {fd}
         /\ thread[t].saved => /\ thread'[t].pc = "submit" /\ thread'[t].kind = "dup"
                               /\ thread'[t].fd = source /\ thread'[t].to = fd
         /\ thread'[t].kind = "dup" => thread'[t].fd = source /\ thread'[t].to = fd
         /\ thread'[t].kind # "close"
    BY <1>2, <1>3, <1>8, IdleType DEF Names, LeftAs
  <1>14. Wanted(p, fd)' => Following(t, p, fd)'
    BY <1>1, <1>10, <1>12, <1>13 DEF Following, Leaving
  <1>15. (thread[t].kind = "dup" /\ Wanted(p, thread[t].to) => Follows(p, thread[t].fd))'
    <2> SUFFICES ASSUME thread'[t].kind = "dup", Wanted(p, thread[t].to)'
                 PROVE  Follows(p, thread[t].fd)'
      OBVIOUS
    <2>1. thread'[t].fd = source /\ thread'[t].to = fd
      BY <1>13
    <2>2. Wanted(p, fd)'
      BY <2>1
    <2>3. Follows(p, source)'
      BY <2>2, <1>10, <1>12 DEF Follows
    <2> QED
      BY <2>1, <2>3
  <1>16. WellOver(t, p, {fd})
    BY <1>13, <1>14, <1>15 DEF WellOver
  <1> QED
    BY <1>1, <1>8, <1>10, <1>11, <1>16, EffectKeepsFollowings

LEMMA Dup2Follows ==
  ASSUME TypeInv, Followings, NEW t \in Threads, thread[t].pc = "call", Dup2(t),
         UNCHANGED <<process, followed>>
  PROVE  Followings'
  <1>1. PICK p \in Threads : p = process[t]
    BY TableType
  <1>2. PICK c \in ThreadState, fd \in Fds :
          /\ c = thread[t] /\ fd = c.to /\ c.fd \in Fds
          /\ c.kind = "dup2" /\ Named(c, TRUE)
          /\ Return(t, c, [Table(t) EXCEPT ![fd] = Table(t)[c.fd]])
          /\ Show(t, fd, FALSE)
    BY Dup2Effect
  <1>3. PICK path \in Targets : path = Table(t)[c.fd]
    BY <1>2, TableType
  <1>4. PICK table \in [Fds -> Targets] : table = [Table(t) EXCEPT ![fd] = path]
    BY <1>3, TableType
  <1>5. c.kind \in Kinds /\ Named(c, TRUE) /\ Return(t, c, table)
    BY <1>2, <1>3, <1>4 DEF Kinds
  <1>6. /\ OthersWait(t) /\ LeftAs(t, c)
        /\ files'[p] = table /\ \A q \in Threads \ {p} : files'[q] = files[q]
    BY <1>1, <1>5, ReturnLeaves
  <1>7. /\ \A x : x # <<p, fd>> => (x \in shown' <=> x \in shown)
        /\ <<p, fd>> \notin shown'
    BY <1>1, <1>2 DEF Show
  <1>8. /\ {fd} \in SUBSET Fds /\ Disturbs(p, {fd}) /\ ~Wanted(p, fd)'
    <2>1. SetsOnly(p, fd, path)
      BY <1>1, <1>4, <1>6, <1>7, TableType DEF SetsOnly
    <2> QED
      BY <1>7, <2>1, SetOne
  <1>9. Alone(t, p, {fd})
    <2>1. InFlight(t) /\ fd \in Names(t)
      BY <1>2 DEF InFlight, Names
    <2> QED
      BY <2>1, <1>1, NamedAlone DEF Followings
  <1>10. WellOver(t, p, {fd})
    <2>1. /\ thread'[t].kind \notin {"close", "dup"}
          /\ \/ thread'[t] = Idle
             \/ thread'[t].pc = "submit" /\ {thread'[t].fd, thread'[t].to} \cap Fds \subseteq Names(t) \cup {fd}
      BY <1>2, <1>6, IdleType DEF Names, LeftAs
    <2> QED
      BY <2>1, <1>8 DEF WellOver
  <1> QED
    BY <1>1, <1>6, <1>8, <1>9, <1>10, EffectKeepsFollowings

\* A call that changes no descriptor.
LEMMA NothingFollows ==
  ASSUME TypeInv, Followings, NEW t \in Threads, thread[t].pc = "call",
         NEW c \in ThreadState, c.kind \in {"use", "failed"}, Named(c, TRUE),
         {c.fd, c.to} \cap Fds \subseteq Names(t),
         Return(t, c, Table(t)), UNCHANGED <<process, followed, shown>>
  PROVE  Followings'
  <1>1. PICK p \in Threads : p = process[t]
    BY TableType
  <1>2. c.kind \in Kinds /\ Table(t) \in [Fds -> Targets] /\ Table(t) = files[p]
    BY <1>1, TableType DEF Kinds
  <1>3. /\ OthersWait(t) /\ LeftAs(t, c)
        /\ files'[p] = files[p] /\ \A q \in Threads \ {p} : files'[q] = files[q]
    BY <1>1, <1>2, ReturnLeaves
  <1>4. Disturbs(p, {}) /\ Alone(t, p, {})
    BY <1>3 DEF Disturbs, Alone, Wanted
  <1>5. WellOver(t, p, {})
    <2>1. /\ thread'[t].kind \notin {"close", "dup"}
          /\ \/ thread'[t] = Idle
             \/ thread'[t].pc = "submit" /\ {thread'[t].fd, thread'[t].to} \cap Fds \subseteq Names(t) \cup {}
      BY <1>3, IdleType DEF LeftAs
    <2> QED
      BY <2>1 DEF WellOver
  <1>6. {} \in SUBSET Fds
    OBVIOUS
  <1> QED
    BY <1>1, <1>3, <1>4, <1>5, <1>6, EffectKeepsFollowings

LEMMA EffectFollows ==
  ASSUME TypeInv, Followings, Clean', NEW t \in Threads, Effect(t)
  PROVE  Followings'
  <1>1. thread[t].pc = "call" /\ UNCHANGED <<process, followed>>
    BY DEF Effect
  <1>2. CASE Use(t)
    <2>1. PICK c \in ThreadState :
            /\ c.kind = "use" /\ c.fd = thread[t].fd /\ c.to = thread[t].to
            /\ Named(c, TRUE) /\ Return(t, c, Table(t))
            /\ UNCHANGED shown
      BY <1>1, <1>2, UseEffect
    <2>2. {c.fd, c.to} \cap Fds \subseteq Names(t) /\ c.kind \in {"use", "failed"}
      BY <2>1 DEF Names
    <2> QED
      BY <1>1, <2>1, <2>2, NothingFollows
  <1>3. CASE Fail(t)
    <2>1. PICK c \in ThreadState :
            /\ c.kind = "failed" /\ c.fd = NoFd /\ c.to = NoFd
            /\ Named(c, TRUE) /\ Return(t, c, Table(t))
            /\ UNCHANGED shown
      BY <1>1, <1>3, FailEffect
    <2>2. {c.fd, c.to} \cap Fds \subseteq Names(t) /\ c.kind \in {"use", "failed"}
      BY <2>1, Limits
    <2> QED
      BY <1>1, <2>1, <2>2, NothingFollows
  <1> QED
    BY <1>1, <1>2, <1>3, OpenFollows, CloseFollows, DupFollows, Dup2Follows DEF Effect

\* Only t has moved: nothing changes for the rest.
LEMMA OthersFollow ==
  ASSUME TypeInv, Followings, NEW t \in Threads, OthersWait(t),
         UNCHANGED <<process, files, followed, shown>>,
         \A u \in Threads \ {t} : InFlight(u) /\ InFlight(t)' /\ process[u] = process[t]
           => Names(t)' \cap Names(u) = {},
         \A p \in Threads, fd \in Fds : Following(t, p, fd) => Following(t, p, fd)',
         (thread[t].pc = "call" /\ ~thread[t].saved =>
           /\ thread[t].kind = "open" => thread[t].form = "odd" \/ thread[t].path \notin Watched
           /\ thread[t].kind \in {"dup", "use"} => ~Wanted(process[t], thread[t].fd))',
         (Leaving(t) =>
           /\ thread[t].kind = "close" => files[process[t]][thread[t].fd] = NoPath
           /\ thread[t].kind = "dup" /\ Wanted(process[t], thread[t].to)
                => Follows(process[t], thread[t].fd))'
  PROVE  Followings'
  <1>1. \A u \in Threads \ {t} : thread'[u] = thread[u]
    BY DEF OthersWait
  <1>2. Exclusive'
    <2> SUFFICES ASSUME NEW v \in Threads, NEW u \in Threads, v # u, InFlight(v)', InFlight(u)',
                        process[v] = process[u]
                 PROVE  Names(v)' \cap Names(u)' = {}
      BY DEF Exclusive
    <2>1. CASE v # t /\ u # t
      BY <1>1, <2>1 DEF Followings, Exclusive, InFlight, Names
    <2>2. CASE v = t
      BY <1>1, <2>2 DEF InFlight, Names
    <2>3. CASE u = t
      BY <1>1, <2>3 DEF InFlight, Names
    <2> QED
      BY <2>1, <2>2, <2>3
  <1>3. \A u \in Threads, p \in Threads, fd \in Fds : Following(u, p, fd) => Following(u, p, fd)'
    BY <1>1 DEF Following, Leaving
  <1>4. WantedFollowed'
    BY <1>3 DEF Followings, WantedFollowed, Wanted, Follows
  <1>5. DroppedUnwanted'
    BY <1>1 DEF Followings, DroppedUnwanted, Wanted
  <1>6. RemovedUnwanted'
    BY <1>1 DEF Followings, RemovedUnwanted, Wanted, Leaving, Follows
  <1> QED
    BY <1>2, <1>4, <1>5, <1>6 DEF Followings

LEMMA EnterFollows ==
  ASSUME TypeInv, Followings, NEW t \in Threads, Enter(t)
  PROVE  Followings'
  <1>1. thread[t].pc = "user" /\ UNCHANGED <<process, files, followed, shown>>
    BY DEF Enter
  <1>2. PICK p \in Threads : p = process[t]
    BY TableType
  <1>3. PICK c \in Requests, d \in ThreadState :
          /\ \A fd \in {c.fd, c.to} \cap Fds : ~Busy(t, fd)
          /\ d.pc = "call" /\ d.kind = c.kind /\ d.fd = c.fd /\ d.to = c.to /\ d.path = c.path
          /\ d.form = c.form
          /\ ~d.saved => MayBeDropped(process[t], c)
          /\ Settled(d)
          /\ thread' = [thread EXCEPT ![t] = d]
    BY EnterStep
  <1>4. thread'[t] = d /\ OthersWait(t)
    BY <1>3, ThreadSet DEF TypeInv, OthersWait
  <1>5. \A u \in Threads \ {t}, fd \in Fds :
          InFlight(u) /\ process[u] = p /\ fd \in Names(u) => fd \notin {c.fd, c.to}
    BY <1>2, <1>3 DEF Busy, Names, InFlight
  <1>6. \A u \in Threads \ {t} : InFlight(u) /\ process[u] = p => Names(t)' \cap Names(u) = {}
    BY <1>3, <1>4, <1>5 DEF Names
  <1>7. \A q \in Threads, fd \in Fds : ~Following(t, q, fd)
    BY <1>1 DEF Following, Leaving
  <1>8. ASSUME ~d.saved
        PROVE  /\ c.kind = "open" => c.form = "odd" \/ c.path \notin Watched
               /\ c.kind \in {"dup", "use"} => ~Wanted(p, c.fd)
    <2>1. MayBeDropped(p, c)
      BY <1>2, <1>3, <1>8
    <2>2. c.kind = "open" => c.form = "odd" \/ c.path \notin Watched
      BY <2>1 DEF MayBeDropped, PassesFilter, PathCandidate
    <2>3. ASSUME c.kind \in {"dup", "use"}, Wanted(p, c.fd) PROVE FALSE
      <3>1. c.fd \in Fds /\ ~Follows(p, c.fd)
        BY <2>1, <2>3, RequestType DEF MayBeDropped, PassesFilter, FdCandidate, Named
      <3>2. PICK u \in Threads : Following(u, p, c.fd)
        BY <2>3, <3>1 DEF Followings, WantedFollowed
      <3>3. u # t /\ InFlight(u) /\ process[u] = p /\ c.fd \in Names(u)
        BY <1>7, <3>1, <3>2 DEF Following, Leaving, InFlight, Names
      <3> QED
        BY <3>1, <3>3, <1>5
    <2> QED
      BY <2>2, <2>3
  <1>9. (thread[t].pc = "call" /\ ~thread[t].saved =>
          /\ thread[t].kind = "open" => thread[t].form = "odd" \/ thread[t].path \notin Watched
          /\ thread[t].kind \in {"dup", "use"} => ~Wanted(process[t], thread[t].fd))'
    BY <1>1, <1>2, <1>3, <1>4, <1>8 DEF Wanted
  <1>10. ~Leaving(t)'
    BY <1>3, <1>4 DEF Leaving
  <1> QED
    BY <1>1, <1>2, <1>4, <1>6, <1>7, <1>9, <1>10, OthersFollow

LEMMA SubmitFollows ==
  ASSUME TypeInv, Followings, NEW t \in Threads, Submit(t)
  PROVE  Followings'
  <1>1. thread[t].pc = "submit" /\ UNCHANGED <<process, files, followed, shown>>
    BY DEF Submit
  <1>2. PICK d \in ThreadState :
          /\ d.pc = "follow" /\ d.kind = thread[t].kind
          /\ d.fd = thread[t].fd /\ d.to = thread[t].to
          /\ Settled(d)
          /\ thread' = [thread EXCEPT ![t] = d]
    BY SubmitStep
  <1>3. thread'[t] = d /\ OthersWait(t)
    BY <1>2, ThreadSet DEF TypeInv, OthersWait
  <1>4. Leaving(t) /\ InFlight(t) /\ Leaving(t)' /\ thread'[t].pc # "call"
    BY <1>1, <1>2, <1>3 DEF Leaving, InFlight
  <1>5. \A u \in Threads \ {t} : InFlight(u) /\ process[u] = process[t] => Names(t)' \cap Names(u) = {}
    BY <1>2, <1>3, <1>4 DEF Followings, Exclusive, Names
  <1>6. \A p \in Threads, fd \in Fds : Following(t, p, fd) => Following(t, p, fd)'
    BY <1>1, <1>2, <1>3, <1>4 DEF Following
  <1>7. (Leaving(t) =>
          /\ thread[t].kind = "close" => files[process[t]][thread[t].fd] = NoPath
          /\ thread[t].kind = "dup" /\ Wanted(process[t], thread[t].to)
               => Follows(process[t], thread[t].fd))'
    BY <1>1, <1>2, <1>3, <1>4 DEF Followings, RemovedUnwanted, Wanted, Follows
  <1> QED
    BY <1>1, <1>3, <1>4, <1>5, <1>6, <1>7, OthersFollow

\* update_watch_fds changes at most what is said of one descriptor that the call names,
\* and what is wanted, and was followed or about to be, stays followed.
LEMMA UpdateEffect ==
  ASSUME TypeInv, Followings, Clean', NEW t \in Threads, thread[t].pc = "follow",
         NEW p \in Threads, p = process[t], UpdateWatchFds(p, thread[t])
  PROVE  /\ \A q \in Threads, fd \in Fds :
              (q = p /\ fd \in Names(t)) \/ (<<q, fd>> \in followed' <=> <<q, fd>> \in followed)
         /\ \A q \in Threads, fd \in Fds :
              Wanted(q, fd) /\ (<<q, fd>> \in followed \/ Following(t, q, fd)) => <<q, fd>> \in followed'
  <1>1. Leaving(t) /\ Named(thread[t], TRUE)
    BY DEF TypeInv, ThreadInv, Leaving
  <1>2. "full" \notin causes'
    BY DEF Clean
  <1>3. \A key : Insert(key) => followed' = followed \cup {key}
    BY <1>2 DEF Insert
  <1>4. CASE thread[t].kind \in {"open", "dup"} /\ Insert(<<p, thread[t].to>>)
    <2>1. thread[t].to \in Names(t) /\ followed' = followed \cup {<<p, thread[t].to>>}
      BY <1>1, <1>3, <1>4 DEF Named, Names
    <2> QED
      BY <2>1 DEF Following
  <1>5. CASE thread[t].kind = "close" /\ Remove(<<p, thread[t].fd>>)
    <2>1. thread[t].fd \in Names(t) /\ followed' = followed \ {<<p, thread[t].fd>>}
      BY <1>1, <1>5 DEF Named, Names, Remove
    <2>2. ~Wanted(p, thread[t].fd)
      BY <1>1, <1>5, Limits DEF Followings, RemovedUnwanted, Wanted
    <2>3. \A q \in Threads, fd \in Fds : ~Following(t, q, fd)
      BY <1>5 DEF Following
    <2> QED
      BY <2>1, <2>2, <2>3
  <1>6. CASE thread[t].kind = "dup" /\ ~Follows(p, thread[t].fd) /\ Remove(<<p, thread[t].to>>)
    <2>1. thread[t].to \in Names(t) /\ followed' = followed \ {<<p, thread[t].to>>}
      BY <1>1, <1>6 DEF Named, Names, Remove
    <2>2. ~Wanted(p, thread[t].to)
      BY <1>1, <1>6 DEF Followings, RemovedUnwanted
    <2>3. \A q \in Threads, fd \in Fds : Following(t, q, fd) => q = p /\ fd = thread[t].to
      BY DEF Following
    <2> QED
      BY <2>1, <2>2, <2>3
  <1>7. CASE thread[t].kind \in {"dup2", "use", "failed"} /\ UNCHANGED followed
    <2>1. \A q \in Threads, fd \in Fds : ~Following(t, q, fd)
      BY <1>7 DEF Following
    <2> QED
      BY <1>7, <2>1
  <1> QED
    BY <1>4, <1>5, <1>6, <1>7 DEF UpdateWatchFds

LEMMA FollowFollows ==
  ASSUME TypeInv, Followings, Clean', NEW t \in Threads, Follow(t)
  PROVE  Followings'
  <1>1. thread[t].pc = "follow" /\ UNCHANGED <<process, files, shown>>
        /\ thread' = [thread EXCEPT ![t] = Idle] /\ Settled(Idle)
    BY IdleType DEF Follow, Settled, Named
  <1>2. PICK p \in Threads : p = process[t]
    BY TableType
  <1>3. /\ \A q \in Threads, fd \in Fds :
             (q = p /\ fd \in Names(t)) \/ (<<q, fd>> \in followed' <=> <<q, fd>> \in followed)
        /\ \A q \in Threads, fd \in Fds :
             Wanted(q, fd) /\ (<<q, fd>> \in followed \/ Following(t, q, fd)) => <<q, fd>> \in followed'
    BY <1>1, <1>2, UpdateEffect DEF Follow
  <1>4. thread'[t] = Idle /\ \A u \in Threads \ {t} : thread'[u] = thread[u]
    BY <1>1, ThreadSet DEF TypeInv
  <1>5. InFlight(t) /\ ~InFlight(t)' /\ ~Leaving(t)' /\ thread'[t].pc # "call"
    BY <1>1, <1>4, IdleType DEF InFlight, Leaving
  <1>6. Exclusive'
    BY <1>1, <1>4, <1>5 DEF Followings, Exclusive, InFlight, Names
  <1>7. WantedFollowed'
    <2> SUFFICES ASSUME NEW q \in Threads, NEW fd \in Fds, Wanted(q, fd)'
                 PROVE  Follows(q, fd)' \/ \E u \in Threads : Following(u, q, fd)'
      BY DEF WantedFollowed
    <2>1. Wanted(q, fd)
      BY <1>1 DEF Wanted
    <2>2. \A u \in Threads \ {t} : Following(u, q, fd) => Following(u, q, fd)'
      BY <1>1, <1>4 DEF Following, Leaving
    <2> QED
      BY <1>3, <2>1, <2>2 DEF Followings, WantedFollowed, Follows
  <1>8. DroppedUnwanted'
    BY <1>1, <1>4, <1>5 DEF Followings, DroppedUnwanted, Wanted
  <1>9. RemovedUnwanted'
    <2> SUFFICES ASSUME NEW u \in Threads, Leaving(u)'
                 PROVE  /\ thread'[u].kind = "close" => files'[process[u]][thread'[u].fd] = NoPath
                        /\ (thread[u].kind = "dup" /\ Wanted(process[u], thread[u].to)
                             => Follows(process[u], thread[u].fd))'
      BY <1>1 DEF RemovedUnwanted
    <2>1. u # t /\ thread'[u] = thread[u] /\ Leaving(u) /\ InFlight(u)
      BY <1>4, <1>5 DEF Leaving, InFlight
    <2>2. /\ thread[u].kind = "close" => files[process[u]][thread[u].fd] = NoPath
          /\ thread[u].kind = "dup" /\ Wanted(process[u], thread[u].to) => Follows(process[u], thread[u].fd)
      BY <2>1 DEF Followings, RemovedUnwanted
    <2>3. ASSUME thread[u].kind = "dup", Wanted(process[u], thread[u].to)
          PROVE  Follows(process[u], thread[u].fd)'
      <3>1. thread[u].fd \in Fds /\ process[u] \in Threads
        BY <2>3 DEF TypeInv, ThreadInv, ProcessInv, Named
      <3>2. thread[u].fd \in Names(u)
        BY <3>1 DEF Names
      <3>3. ~(process[u] = p /\ thread[u].fd \in Names(t))
        BY <2>1, <3>2, <1>2, <1>5 DEF Followings, Exclusive
      <3>4. <<process[u], thread[u].fd>> \in followed'
        BY <3>1, <3>3, <1>3, <2>2, <2>3 DEF Follows
      <3> QED
        BY <3>4, <1>1, <2>1 DEF Follows
    <2> QED
      BY <1>1, <2>1, <2>2, <2>3 DEF Wanted
  <1> QED
    BY <1>6, <1>7, <1>8, <1>9 DEF Followings

LEMMA CloneFollows ==
  ASSUME TypeInv, Followings, Clone
  PROVE  Followings'
  <1>1. /\ thread[Other].pc = "absent" /\ process[Other] = Main
        /\ thread' = [thread EXCEPT ![Other] = Idle] /\ Settled(Idle)
        /\ \/ process' = process /\ UNCHANGED files
           \/ /\ process' = [process EXCEPT ![Other] = Other]
              /\ files' = [files EXCEPT ![Other] = files[Main]]
        /\ UNCHANGED <<followed, shown>>
    BY CloneStep
  <1>2. thread'[Other] = Idle /\ thread'[Main] = thread[Main]
    <2>1. thread' = [thread EXCEPT ![Other] = Idle] /\ Settled(Idle) /\ ThreadInv
      BY <1>1 DEF TypeInv
    <2>2. thread'[Other] = Idle /\ \A u \in Threads \ {Other} : thread'[u] = thread[u]
      BY <2>1, ThreadSet, Limits
    <2> QED
      BY <2>2, Limits
  <1>3. process'[Main] = process[Main] /\ process[Main] = Main /\ files'[Main] = files[Main]
    BY <1>1, Limits DEF TypeInv, ProcessInv
  <1>4. ~InFlight(Other)' /\ ~Leaving(Other)' /\ thread'[Other].pc # "call"
    BY <1>2, IdleType DEF InFlight, Leaving
  <1>5. \A t \in Threads : t = Main \/ t = Other
    BY DEF Threads
  <1>6. \A fd \in Fds : <<Other, fd>> \notin shown'
    BY <1>1 DEF TypeInv, ProcessInv
  <1>7. Exclusive'
    BY <1>4, <1>5 DEF Exclusive
  <1>8. WantedFollowed'
    <2> SUFFICES ASSUME NEW q \in Threads, NEW fd \in Fds, Wanted(q, fd)'
                 PROVE  Follows(q, fd)' \/ \E u \in Threads : Following(u, q, fd)'
      BY DEF WantedFollowed
    <2>1. q = Main
      BY <1>5, <1>6 DEF Wanted
    <2>2. Wanted(Main, fd)
      BY <1>1, <1>3, <2>1 DEF Wanted
    <2>3. Follows(Main, fd) \/ \E u \in Threads : Following(u, Main, fd)
      BY <2>2, Limits DEF Followings, WantedFollowed
    <2>4. ASSUME NEW u \in Threads, Following(u, Main, fd) PROVE Following(u, Main, fd)'
      <3>1. u = Main
        BY <1>1, <1>5, <2>4 DEF Following, Leaving
      <3> QED
        BY <3>1, <2>4, <1>2, <1>3 DEF Following, Leaving
    <2> QED
      BY <1>1, <2>1, <2>3, <2>4 DEF Follows
  <1>9. DroppedUnwanted'
    BY <1>1, <1>2, <1>3, <1>4, <1>5, Limits DEF Followings, DroppedUnwanted, Wanted
  <1>10. RemovedUnwanted'
    BY <1>1, <1>2, <1>3, <1>4, <1>5, Limits DEF Followings, RemovedUnwanted, Wanted, Leaving, Follows
  <1> QED
    BY <1>7, <1>8, <1>9, <1>10 DEF Followings

\* What the collector does is of no account here.
LEMMA IdleFollows ==
  ASSUME Followings, UNCHANGED <<thread, process, files, followed, shown>>
  PROVE  Followings'
  BY DEF Followings, Exclusive, WantedFollowed, DroppedUnwanted, RemovedUnwanted, Following,
         Leaving, InFlight, Names, Wanted, Follows

-----------------------------------------------------------------------------
(* The invariant.                                                           *)

LEMMA InitIInv == Init => IInv
  <1> SUFFICES ASSUME Init PROVE IInv
    OBVIOUS
  <1>1. TypeInv
    BY InitTypes
  <1>2. thread = [t \in Threads |-> IF t = Main THEN Idle ELSE Absent] /\ shown = {}
    BY DEF Init
  <1>3. Absent.pc = "absent"
    BY DEF Absent, Idle
  <1>4. \A t \in Threads : thread[t].pc \in {"absent", "user"}
    BY <1>2, <1>3, IdleType
  <1>5. Followings
    BY <1>2, <1>4 DEF Followings, Exclusive, WantedFollowed, DroppedUnwanted, RemovedUnwanted,
                      InFlight, Leaving, Wanted
  <1> QED
    BY <1>1, <1>5 DEF IInv, FollowInv, Followings

LEMMA NextPreserves == IInv /\ [Next]_vars => IInv'
  <1> SUFFICES ASSUME IInv, [Next]_vars PROVE IInv'
    OBVIOUS
  <1>1. TypeInv /\ TypeInv'
    BY NextTypes DEF IInv
  <1>2. ASSUME Clean' PROVE Followings'
    <2>1. Followings
      BY <1>1, <1>2, CleanBefore DEF IInv, FollowInv, Followings
    <2>2. CASE UNCHANGED vars
      BY <2>1, <2>2, IdleFollows DEF vars, kernel
    <2>3. ASSUME NEW t \in Threads, ThreadStep(t) PROVE Followings'
      BY <1>1, <1>2, <2>1, <2>3, EnterFollows, EffectFollows, SubmitFollows, FollowFollows DEF ThreadStep
    <2>4. CASE Clone
      BY <1>1, <2>1, <2>4, CloneFollows
    <2>5. CASE ConsumeSyscall \/ ConsumeFork
      <3>1. UNCHANGED <<thread, process, files, followed, shown>>
        BY <2>5 DEF ConsumeSyscall, ConsumeFork, kernel
      <3> QED
        BY <2>1, <3>1, IdleFollows
    <2> QED
      BY <2>2, <2>3, <2>4, <2>5 DEF Next
  <1> QED
    BY <1>1, <1>2 DEF IInv, FollowInv, Followings

THEOREM Invariance == Spec => []IInv
  BY InitIInv, NextPreserves, PTL DEF Spec

-----------------------------------------------------------------------------
(***************************************************************************)
(* What the audit says of a descriptor. LineIsTrue and WatchedCallShows    *)
(* are about one record, but whether it is told rightly depends on every   *)
(* record before it: the cache is behind the kernel by what the ring       *)
(* holds. The invariant replays the ring. A table T fits process p after   *)
(* record i if taking the records from i + 1 on as the collector takes     *)
(* them (Result) is right about each call on a descriptor among them       *)
(* (Replayed) and ends in a table that agrees with the descriptors in the  *)
(* kernel (End), where these can be relied on (Trusted). Then the cached   *)
(* table of each known process fits after no record, the table each record *)
(* was submitted with fits after it, and at a fork that makes a process    *)
(* any table fits it (Mirrors): whatever the collector takes over, by      *)
(* following or from /proc, it will be right.                              *)
(*                                                                         *)
(* "mode" is the claim: what is said of a watched path is true ("line"),   *)
(* which relies on the descriptors that WATCH_FDS holds, or a call on a    *)
(* watched file is told ("shows"), which relies on what is wanted.         *)
(***************************************************************************)

Modes == {"line", "shows"}
Tables == [Fds -> Targets]

\* What the collector makes of a table when it takes this record of its thread.
After(r, V) ==
  CASE r.kind = "open"  -> [V EXCEPT ![r.to] = r.path]
    [] r.kind = "close" -> [V EXCEPT ![r.fd] = NoPath]
    [] r.kind \in {"dup", "dup2"} /\ V[r.fd] # NoPath -> [V EXCEPT ![r.to] = V[r.fd]]
    [] OTHER -> V

Result(p, r, V) == IF r.thread = p THEN After(r, V) ELSE V

\* What must not have happened for a property to be claimed.
Fine(mode) == causes \subseteq IF mode = "line" THEN {"full"} ELSE {"dup2"}

\* A call whose line must be right, and the descriptors it may be about.
Checked(mode, r) ==
  r.kind = "use" /\ (mode = "line" \/ (r.shown /\ r.table[r.fd] \in Watched))

Trusted(mode, p, fd) ==
  \/ mode = "line" /\ Follows(p, fd)
  \/ mode = "line" /\ Leaving(p) /\ thread[p].kind \in {"open", "dup"} /\ thread[p].to = fd
  \/ mode = "shows" /\ Wanted(p, fd)

Right(mode, r, V) == Checked(mode, r) => V[r.fd] = r.table[r.fd]

\* The descriptors of a process are those of one thread, named after it.
Single == thread[Other].pc = "absent" \/ process[Other] = Other

\* A record that comes before any that tells of a second thread.
Before(k) == Single \/ \A j \in 1 .. k : ring[j].kind # "fork"

\* V, which follows all records submitted, says the truth about p's descriptors.
End(mode, p, V) ==
  LET c == thread[p] IN
  /\ c.pc = "submit" => Right(mode, c, V)
  /\ \A fd \in Fds : Trusted(mode, p, fd) =>
       (IF c.pc = "submit" THEN After(c, V) ELSE V)[fd] = files[p][fd]

Replayed(mode, p, s, k) ==
  /\ s[k] = Result(p, ring[k], s[k - 1])
  /\ ring[k].thread = p => Right(mode, ring[k], s[k - 1])

\* T is a good table for p after record i: the records to come lead to the truth.
Fits(mode, T, p, i) ==
  \E s \in [Nat -> Tables] :
    /\ s[i] = T
    /\ \A k \in DOMAIN ring : k > i /\ Before(k) => Replayed(mode, p, s, k)
    /\ Single => End(mode, p, s[Len(ring)])

-----------------------------------------------------------------------------
LEMMA SameLength ==
  ASSUME NEW m \in Nat, NEW n \in Nat, 1 .. m = 1 .. n
  PROVE  m = n
  OBVIOUS

LEMMA AfterType ==
  ASSUME NEW r, Named(r, TRUE), r.path \in Targets, NEW V \in Tables
  PROVE  After(r, V) \in Tables
  <1> USE DEF After, Tables, Named
  <1>1. CASE r.kind = "open"
    BY <1>1
  <1>2. CASE r.kind = "close"
    BY <1>2, Limits
  <1>3. CASE r.kind \in {"dup", "dup2"}
    BY <1>3
  <1>4. CASE r.kind \notin {"open", "close", "dup", "dup2"}
    BY <1>4
  <1> QED
    BY <1>1, <1>2, <1>3, <1>4

LEMMA ResultType ==
  ASSUME RingInv, NEW k \in DOMAIN ring, NEW p, NEW V \in Tables
  PROVE  Result(p, ring[k], V) \in Tables
  <1>1. ring[k] \in Record /\ Named(ring[k], TRUE)
    BY RingType
  <1>2. ring[k].path \in Targets
    BY <1>1 DEF Record
  <1> QED
    BY <1>1, <1>2, AfterType DEF Result

\* A table that says the truth by now is a good one after the last record.
LEMMA FitsNow ==
  ASSUME RingInv, NEW mode, NEW p, NEW V \in Tables, End(mode, p, V)
  PROVE  Fits(mode, V, p, Len(ring))
  <1> DEFINE s == [n \in Nat |-> V]
  <1>1. Len(ring) \in Nat /\ DOMAIN ring = 1 .. Len(ring)
    BY RingType
  <1>2. s \in [Nat -> Tables] /\ s[Len(ring)] = V
    BY <1>1
  <1>3. \A k \in DOMAIN ring : ~(k > Len(ring))
    BY <1>1
  <1> HIDE DEF s
  <1> QED
    BY <1>2, <1>3 DEF Fits

\* No record comes or goes.
LEMMA FitsKept ==
  ASSUME UNCHANGED ring, Single' <=> Single, NEW mode, NEW p,
         Single => \A V \in Tables : End(mode, p, V) => End(mode, p, V)',
         NEW T, NEW i, RingInv, Fits(mode, T, p, i)
  PROVE  Fits(mode, T, p, i)'
  <1>1. PICK s \in [Nat -> Tables] :
          /\ s[i] = T
          /\ \A k \in DOMAIN ring : k > i /\ Before(k) => Replayed(mode, p, s, k)
          /\ Single => End(mode, p, s[Len(ring)])
    BY DEF Fits
  <1>2. \A k : Before(k)' <=> Before(k)
    BY DEF Before
  <1>3. \A k : Replayed(mode, p, s, k) => Replayed(mode, p, s, k)'
    BY DEF Replayed
  <1>4. Single' => End(mode, p, s[Len(ring)])'
    <2>1. s[Len(ring)] \in Tables
      BY RingType
    <2>2. PICK V \in Tables : V = s[Len(ring)]
      BY <2>1
    <2>3. Single' => End(mode, p, V)'
      BY <1>1, <2>2
    <2>4. V = s[Len(ring')]
      BY <2>2
    <2> QED
      BY <2>3, <2>4 DEF End
  <1> QED
    BY <1>1, <1>2, <1>3, <1>4 DEF Fits

\* A record is added, which the truth goes through.
LEMMA FitsThrough ==
  ASSUME NEW r, Submitted(r), RingInv, RingInv', Single, Single', NEW mode, NEW p,
         \A V \in Tables : End(mode, p, V) =>
           /\ r.thread = p => Right(mode, r, V)
           /\ End(mode, p, Result(p, r, V))',
         NEW T, NEW i \in 0 .. Len(ring), Fits(mode, T, p, i)
  PROVE  Fits(mode, T, p, i)'
  <1>1. PICK s \in [Nat -> Tables] :
          /\ s[i] = T
          /\ \A k \in DOMAIN ring : k > i /\ Before(k) => Replayed(mode, p, s, k)
          /\ Single => End(mode, p, s[Len(ring)])
    BY DEF Fits
  <1>2. PICK n \in Nat : n = Len(ring)
    BY RingType
  <1>3. DOMAIN ring = 1 .. n /\ DOMAIN ring' = 1 .. (n + 1) /\ Len(ring') = n + 1
    <2>1. DOMAIN ring = 1 .. n /\ DOMAIN ring' = 1 .. (n + 1)
      BY <1>2, RingType DEF Submitted
    <2>2. Len(ring') \in Nat /\ DOMAIN ring' = 1 .. Len(ring')
      <3>1. ring' \in Seq(Record)
        BY DEF RingInv
      <3> QED
        BY <3>1, LenProperties
    <2> QED
      BY <2>1, <2>2
  <1>4. PICK W \in Tables : W = Result(p, r, s[n])
    <2>1. n + 1 \in DOMAIN ring' /\ ring'[n + 1] = r
      BY <1>2, <1>3 DEF Submitted
    <2>2. r \in Record /\ Named(r, TRUE)
      <3>1. ring' \in Seq(Record) /\ \A k \in DOMAIN ring' : Named(ring'[k], TRUE)
        BY DEF RingInv
      <3> QED
        BY <2>1, <3>1, <1>3, ElementOfSeq
    <2>3. r.path \in Targets
      BY <2>2 DEF Record
    <2> QED
      BY <2>2, <2>3, AfterType DEF Result
  <1> DEFINE z == [s EXCEPT ![n + 1] = W]
  <1>5. z \in [Nat -> Tables] /\ z[n + 1] = W /\ \A k \in 0 .. n : z[k] = s[k]
    BY <1>2
  <1> HIDE DEF z
  <1>6. z[i] = T
    BY <1>1, <1>2, <1>5
  <1>7. ASSUME NEW k \in DOMAIN ring', k > i PROVE Replayed(mode, p, z, k)'
    <2>1. CASE k = n + 1
      <3>1. ring'[k] = r /\ z[k] = W /\ z[k - 1] = s[n]
        BY <2>1, <1>2, <1>5 DEF Submitted
      <3>2. r.thread = p => Right(mode, r, s[n])
        BY <1>1, <1>2
      <3> QED
        BY <3>1, <3>2, <1>4 DEF Replayed, Result, Right, Checked, After
    <2>2. CASE k # n + 1
      <3>1. k \in DOMAIN ring /\ ring'[k] = ring[k] /\ z[k] = s[k] /\ z[k - 1] = s[k - 1]
        BY <2>2, <1>3, <1>5 DEF Submitted
      <3>2. Replayed(mode, p, s, k)
        BY <3>1, <1>1, <1>7 DEF Before
      <3> QED
        BY <3>1, <3>2 DEF Replayed
    <2> QED
      BY <2>1, <2>2
  <1>8. End(mode, p, z[Len(ring)])'
    <2>1. End(mode, p, W)'
      <3>1. s[n] \in Tables /\ End(mode, p, s[n])
        BY <1>1, <1>2
      <3>2. PICK V \in Tables : V = s[n]
        BY <3>1
      <3>3. End(mode, p, Result(p, r, V))'
        BY <3>1, <3>2
      <3>4. Result(p, r, V) = W
        BY <3>2, <1>4
      <3> QED
        BY <3>3, <3>4 DEF End
    <2>2. z[Len(ring')] = W
      BY <1>3, <1>5
    <2> QED
      BY <2>1, <2>2 DEF End
  <1> QED
    BY <1>5, <1>6, <1>7, <1>8 DEF Fits

\* A record is added that need not be followed, behind one that tells of a second thread.
LEMMA FitsAhead ==
  ASSUME NEW r, Submitted(r), RingInv, ~Single',
         NEW n \in Nat, n = Len(ring), ~Before(n + 1)',
         NEW mode, NEW p, NEW T, NEW i, Fits(mode, T, p, i)
  PROVE  Fits(mode, T, p, i)'
  <1>1. PICK s \in [Nat -> Tables] :
          /\ s[i] = T
          /\ \A k \in DOMAIN ring : k > i /\ Before(k) => Replayed(mode, p, s, k)
    BY DEF Fits
  <1>2. DOMAIN ring = 1 .. n /\ DOMAIN ring' = 1 .. (n + 1)
    BY RingType DEF Submitted
  <1>3. ASSUME NEW k \in DOMAIN ring', k > i, Before(k)' PROVE Replayed(mode, p, s, k)'
    <2>1. k # n + 1
      BY <1>3
    <2>2. k \in DOMAIN ring /\ ring'[k] = ring[k]
      BY <2>1, <1>2 DEF Submitted
    <2>3. \A j \in 1 .. k : ring[j].kind # "fork"
      BY <1>2, <1>3, <2>2 DEF Before, Submitted
    <2>4. Replayed(mode, p, s, k)
      BY <1>1, <1>3, <2>2, <2>3 DEF Before
    <2> QED
      BY <2>2, <2>4 DEF Replayed
  <1> QED
    BY <1>1, <1>3 DEF Fits

-----------------------------------------------------------------------------
LEMMA TakenDomain ==
  ASSUME RingInv, RingInv', Taken
  PROVE  \E n \in Nat : /\ Len(ring) = n + 1 /\ DOMAIN ring = 1 .. (n + 1)
                        /\ Len(ring') = n /\ DOMAIN ring' = 1 .. n
                        /\ \A i \in 1 .. n : ring'[i] = ring[i + 1]
  <1>1. Len(ring) \in Nat /\ DOMAIN ring = 1 .. Len(ring) /\ 1 \in DOMAIN ring
        /\ DOMAIN ring' = 1 .. (Len(ring) - 1)
    BY RingType DEF Taken
  <1>2. PICK n \in Nat : Len(ring) = n + 1
    <2>1. Len(ring) - 1 \in Nat /\ Len(ring) = (Len(ring) - 1) + 1
      BY <1>1
    <2> QED
      BY <2>1
  <1>3. DOMAIN ring = 1 .. (n + 1) /\ DOMAIN ring' = 1 .. n
    BY <1>1, <1>2
  <1>4. ring' \in Seq(Record)
    BY DEF RingInv
  <1>5. Len(ring') \in Nat /\ DOMAIN ring' = 1 .. Len(ring')
    BY <1>4, LenProperties
  <1>6. Len(ring') = n
    BY <1>3, <1>5
  <1> QED
    BY <1>2, <1>3, <1>6 DEF Taken

\* The first record is taken: what comes after it is as it was.
LEMMA FitsShift ==
  ASSUME RingInv, RingInv', Taken, UNCHANGED <<thread, process, files, followed, shown>>,
         Before(1) \/ Single, NEW mode, NEW p, NEW T, NEW i \in Nat, Fits(mode, T, p, i + 1)
  PROVE  Fits(mode, T, p, i)'
  <1>1. PICK s \in [Nat -> Tables] :
          /\ s[i + 1] = T
          /\ \A k \in DOMAIN ring : k > i + 1 /\ Before(k) => Replayed(mode, p, s, k)
          /\ Single => End(mode, p, s[Len(ring)])
    BY DEF Fits
  <1>2. PICK n \in Nat :
          /\ Len(ring) = n + 1 /\ DOMAIN ring = 1 .. (n + 1)
          /\ Len(ring') = n /\ DOMAIN ring' = 1 .. n
          /\ \A k \in 1 .. n : ring'[k] = ring[k + 1]
    BY TakenDomain
  <1>3. PICK z \in [Nat -> Tables] : \A k \in Nat : z[k] = s[k + 1]
    <2> DEFINE y == [k \in Nat |-> s[k + 1]]
    <2>1. y \in [Nat -> Tables] /\ \A k \in Nat : y[k] = s[k + 1]
      OBVIOUS
    <2> HIDE DEF y
    <2> QED
      BY <2>1
  <1>4. Single' <=> Single
    BY DEF Single
  <1>5. ASSUME NEW k \in DOMAIN ring', k > i, Before(k)' PROVE Replayed(mode, p, z, k)'
    <2>1. k \in Nat /\ k - 1 \in Nat /\ k + 1 \in DOMAIN ring /\ ring'[k] = ring[k + 1]
          /\ k + 1 > i + 1 /\ k \in 1 .. n
      BY <1>2, <1>5
    <2>2. Before(k + 1)
      <3>1. CASE Single
        BY <3>1 DEF Before
      <3>2. CASE ~Single
        <4>1. \A j \in 1 .. k : ring'[j].kind # "fork"
          BY <1>4, <1>5, <3>2 DEF Before
        <4>2. ring[1].kind # "fork"
          BY <3>2 DEF Before
        <4>3. ASSUME NEW j \in 1 .. (k + 1) PROVE ring[j].kind # "fork"
          <5>1. j = 1 \/ (j - 1 \in 1 .. k /\ j - 1 \in 1 .. n /\ (j - 1) + 1 = j)
            BY <2>1, <4>3
          <5> QED
            BY <5>1, <4>1, <4>2, <1>2
        <4> QED
          BY <4>3 DEF Before
      <3> QED
        BY <3>1, <3>2
    <2>3. Replayed(mode, p, s, k + 1)
      BY <1>1, <2>1, <2>2
    <2>4. z[k] = s[k + 1] /\ z[k - 1] = s[k] /\ (k + 1) - 1 = k
      BY <1>3, <2>1
    <2> QED
      BY <2>1, <2>3, <2>4 DEF Replayed
  <1>6. Single' => End(mode, p, z[Len(ring)])'
    <2>1. z[Len(ring')] = s[Len(ring)]
      BY <1>2, <1>3
    <2>2. PICK W : W = s[Len(ring)]
      OBVIOUS
    <2>3. End(mode, p, W) => End(mode, p, W)'
      BY DEF End, Trusted, Follows, Leaving, Wanted
    <2> QED
      BY <1>1, <1>4, <2>1, <2>2, <2>3 DEF End
  <1>7. z[i] = T
    BY <1>1, <1>3
  <1> QED
    BY <1>5, <1>6, <1>7 DEF Fits

\* The first record, seen from the table before it.
LEMMA FitsAdvance ==
  ASSUME RingInv, 1 \in DOMAIN ring, Before(1), NEW mode, NEW p, NEW T, Fits(mode, T, p, 0)
  PROVE  /\ Fits(mode, Result(p, ring[1], T), p, 1)
         /\ ring[1].thread = p => Right(mode, ring[1], T)
  <1>1. PICK s \in [Nat -> Tables] :
          /\ s[0] = T
          /\ \A k \in DOMAIN ring : k > 0 /\ Before(k) => Replayed(mode, p, s, k)
          /\ Single => End(mode, p, s[Len(ring)])
    BY DEF Fits
  <1>2. Replayed(mode, p, s, 1)
    BY <1>1
  <1>3. s[1] = Result(p, ring[1], T) /\ (ring[1].thread = p => Right(mode, ring[1], T))
    BY <1>1, <1>2 DEF Replayed
  <1>4. \A k \in DOMAIN ring : k > 1 => k > 0
    BY RingType
  <1> QED
    BY <1>1, <1>3, <1>4 DEF Fits

-----------------------------------------------------------------------------
(* A process with one thread.                                               *)

\* The calls of such a process, and what of its descriptors is followed.
CallInv(p) ==
  LET c == thread[p] IN
  /\ c.pc = "call" /\ c.kind \in {"close", "dup", "use"} => (c.saved <=> Follows(p, c.fd))
  /\ c.pc = "submit" => c.table = files[p]
  /\ \A fd \in Fds : Follows(p, fd) /\ files[p][fd] = NoPath
       => Leaving(p) /\ c.kind = "close" /\ c.fd = fd
  /\ Leaving(p) /\ c.kind \in {"open", "dup"} => files[p][c.to] # NoPath
  /\ c.pc \in {"call", "submit"} /\ c.kind = "open" => c.path \in Paths
  /\ c.pc = "submit" /\ c.kind = "open" => c.table[c.to] = c.path

LEMMA Own ==
  ASSUME TypeInv, Single, NEW t \in Threads, thread[t].pc # "absent"
  PROVE  process[t] = t
  BY DEF Single, TypeInv, ProcessInv, Threads

\* What the steps of t have to do with no other process.
Apart(t) ==
  /\ OthersWait(t)
  /\ \A p \in Threads \ {t} :
       /\ files'[p] = files[p]
       /\ \A fd \in Fds : (Follows(p, fd)' <=> Follows(p, fd)) /\ (<<p, fd>> \in shown' <=> <<p, fd>> \in shown)

LEMMA ApartEnds ==
  ASSUME NEW t \in Threads, Apart(t), NEW p \in Threads \ {t}, NEW mode, NEW V, End(mode, p, V)
  PROVE  End(mode, p, V)'
  <1>1. thread'[p] = thread[p] /\ files'[p] = files[p] /\ (Leaving(p)' <=> Leaving(p))
    BY DEF Apart, OthersWait, Leaving
  <1>2. \A fd \in Fds : Trusted(mode, p, fd)' <=> Trusted(mode, p, fd)
    BY <1>1 DEF Apart, Trusted, Wanted
  <1> QED
    BY <1>1, <1>2 DEF End

LEMMA ApartCalls ==
  ASSUME NEW t \in Threads, Apart(t), NEW p \in Threads \ {t}, ThreadInv, CallInv(p)
  PROVE  CallInv(p)'
  <1>1. thread'[p] = thread[p] /\ files'[p] = files[p] /\ (Leaving(p)' <=> Leaving(p))
    BY DEF Apart, OthersWait, Leaving
  <1>2. \A fd \in Fds : Follows(p, fd)' <=> Follows(p, fd)
    BY DEF Apart
  <1>3. thread[p].pc = "call" /\ thread[p].kind \in {"close", "dup", "use"} => thread[p].fd \in Fds
    BY DEF ThreadInv, Named
  <1>4. thread[p].fd \in Fds => (Follows(p, thread[p].fd)' <=> Follows(p, thread[p].fd))
    <2>1. \A fd \in Fds : fd = thread[p].fd => (Follows(p, fd)' <=> Follows(p, fd))
      BY <1>2
    <2> QED
      BY <2>1, <1>1 DEF Follows
  <1> QED
    BY <1>1, <1>2, <1>3, <1>4 DEF CallInv

-----------------------------------------------------------------------------
(* The entry of a call.                                                     *)

LEMMA EnterOwn ==
  ASSUME TypeInv, Single, NEW t \in Threads, CallInv(t), Enter(t)
  PROVE  /\ Apart(t) /\ CallInv(t)'
         /\ \A mode, V : End(mode, t, V) => End(mode, t, V)'
  <1>1. thread[t].pc = "user" /\ UNCHANGED <<process, files, followed, shown>>
    BY DEF Enter
  <1>2. process[t] = t
    BY <1>1, Own
  <1>3. PICK c \in Requests, d \in ThreadState :
          /\ d.pc = "call" /\ d.kind = c.kind /\ d.fd = c.fd /\ d.path = c.path
          /\ d.saved => PassesFilter(process[t], c)
          /\ ~d.saved => MayBeDropped(process[t], c)
          /\ Settled(d)
          /\ thread' = [thread EXCEPT ![t] = d]
    BY EnterStep
  <1>4. thread'[t] = d /\ OthersWait(t)
    BY <1>3, ThreadSet DEF TypeInv, OthersWait
  <1>5. ~Leaving(t) /\ ~Leaving(t)'
    BY <1>1, <1>3, <1>4 DEF Leaving
  <1>6. Apart(t)
    BY <1>1, <1>4 DEF Apart, Follows
  <1>7. d.kind \in {"close", "dup", "use"} => (d.saved <=> Follows(t, d.fd))
    BY <1>2, <1>3 DEF PassesFilter, MayBeDropped, FdCandidate
  <1>8. CallInv(t)'
    <2>1. \A fd \in Fds : ~(Follows(t, fd) /\ files[t][fd] = NoPath)
      BY <1>5 DEF CallInv
    <2>2. thread'[t].kind \in {"close", "dup", "use"} =>
            (thread'[t].saved <=> Follows(t, thread[t].fd)')
      BY <1>1, <1>4, <1>7 DEF Follows
    <2>3. thread'[t].pc = "call" /\ (thread'[t].kind = "open" => thread'[t].path \in Paths)
      BY <1>3, <1>4, RequestType
    <2> QED
      BY <1>1, <1>5, <2>1, <2>2, <2>3 DEF CallInv, Follows
  <1>9. ASSUME NEW mode, NEW V, End(mode, t, V) PROVE End(mode, t, V)'
    <2>1. \A fd : Trusted(mode, t, fd)' => Trusted(mode, t, fd)
      BY <1>1, <1>5 DEF Trusted, Follows, Wanted
    <2> QED
      BY <1>1, <1>3, <1>4, <1>9, <2>1 DEF End
  <1> QED
    BY <1>6, <1>8, <1>9

-----------------------------------------------------------------------------
(* The effect of a call.                                                    *)

LEMMA OverFields ==
  ASSUME NEW c \in ThreadState, NEW table
  PROVE  /\ c.saved => /\ Over(c, table).pc = "submit" /\ Over(c, table).kind = c.kind
                       /\ Over(c, table).fd = c.fd /\ Over(c, table).to = c.to
                       /\ Over(c, table).path = c.path /\ Over(c, table).shown = c.shown
                       /\ Over(c, table).table = table
         /\ ~c.saved => Over(c, table) = Idle
  BY DEF Over, ThreadState

\* A call of t takes effect: c is what it is by now, table what it leaves, of which
\* only the descriptors X are new.
Effected(t, c, table, X) ==
  /\ c \in ThreadState /\ Named(c, TRUE) /\ c.saved = thread[t].saved
  /\ table \in Tables /\ X \in SUBSET Fds
  /\ OthersWait(t) /\ thread'[t] = Over(c, table)
  /\ files'[t] = table /\ \A p \in Threads \ {t} : files'[p] = files[p]
  /\ followed' = followed
  /\ \A fd \in Fds \ X : table[fd] = files[t][fd] /\ (<<t, fd>> \in shown' <=> <<t, fd>> \in shown)
  /\ \A p \in Threads \ {t} : \A fd : <<p, fd>> \in shown' <=> <<p, fd>> \in shown
  /\ c.kind \in {"open", "dup"} => c.to \in X /\ table[c.to] # NoPath

LEMMA ReturnEffected ==
  ASSUME TypeInv, NEW t \in Threads, process[t] = t, NEW c \in ThreadState, c.kind \in Kinds,
         Named(c, TRUE), c.saved = thread[t].saved, NEW table \in Tables, Return(t, c, table),
         NEW X \in SUBSET Fds, UNCHANGED followed,
         \A fd \in Fds \ X : table[fd] = files[t][fd],
         \A x : (\E fd \in X : x = <<t, fd>>) \/ (x \in shown' <=> x \in shown),
         c.kind \in {"open", "dup"} => c.to \in X /\ table[c.to] # NoPath
  PROVE  Effected(t, c, table, X)
  <1>1. /\ OthersWait(t)
        /\ files'[t] = table /\ \A p \in Threads \ {t} : files'[p] = files[p]
    <2>1. table \in [Fds -> Targets]
      BY DEF Tables
    <2>2. /\ OthersWait(t) /\ files'[process[t]] = table
          /\ \A p \in Threads \ {process[t]} : files'[p] = files[p]
      BY <2>1, ReturnLeaves
    <2> QED
      BY <2>2
  <1>2. thread' = [thread EXCEPT ![t] = Over(c, table)]
    BY DEF Return, Over
  <1>3. thread'[t] = Over(c, table)
    BY <1>2 DEF TypeInv, ThreadInv
  <1> QED
    BY <1>1, <1>3 DEF Effected

LEMMA EffectedApart ==
  ASSUME NEW t \in Threads, NEW c, NEW table, NEW X, Effected(t, c, table, X)
  PROVE  Apart(t)
  BY DEF Effected, Apart, Follows

LEMMA EffectedCalls ==
  ASSUME TypeInv, NEW t \in Threads, thread[t].pc = "call", CallInv(t),
         NEW c, NEW table, NEW X, Effected(t, c, table, X),
         \A fd \in X : table[fd] = NoPath /\ Follows(t, fd) => c.saved /\ c.kind = "close" /\ c.fd = fd,
         c.kind = "open" => c.path \in Paths /\ table[c.to] = c.path
  PROVE  CallInv(t)'
  <1>1. /\ c.saved => /\ thread'[t].pc = "submit" /\ thread'[t].kind = c.kind
                      /\ thread'[t].fd = c.fd /\ thread'[t].to = c.to /\ thread'[t].table = table
                      /\ thread'[t].path = c.path
        /\ ~c.saved => thread'[t].pc = "user"
    BY OverFields, IdleType DEF Effected
  <1>2. \A fd \in Fds : ~(Follows(t, fd) /\ files[t][fd] = NoPath)
    BY DEF CallInv, Leaving
  <1>3. ASSUME NEW fd \in Fds, Follows(t, fd)', table[fd] = NoPath
        PROVE  c.saved /\ c.kind = "close" /\ c.fd = fd
    <2>1. Follows(t, fd)
      BY <1>3 DEF Effected, Follows
    <2>2. fd \in X
      BY <1>2, <1>3, <2>1 DEF Effected
    <2> QED
      BY <1>3, <2>1, <2>2
  <1>4. files'[t] = table /\ (c.kind \in {"open", "dup"} => table[c.to] # NoPath)
    BY DEF Effected
  <1>5. c.saved \/ ~c.saved
    OBVIOUS
  <1>6. Leaving(t)' <=> c.saved
    BY <1>1 DEF Leaving
  <1> QED
    BY <1>1, <1>3, <1>4, <1>6 DEF CallInv, Follows

LEMMA EffectedEnds ==
  ASSUME TypeInv, NEW t \in Threads, thread[t].pc = "call",
         NEW c, NEW table, NEW X, Effected(t, c, table, X), NEW mode, NEW V, End(mode, t, V),
         \A fd \in Fds \ X : After(c, V)[fd] = V[fd],
         \A fd \in X : Trusted(mode, t, fd)' =>
           (IF c.saved THEN After(c, V) ELSE V)[fd] = table[fd],
         c.saved /\ c.kind = "use" /\ (mode = "line" \/ (c.shown /\ table[c.fd] \in Watched))
           => V[c.fd] = table[c.fd]
  PROVE  End(mode, t, V)'
  <1>1. /\ c.saved => /\ thread'[t].pc = "submit" /\ thread'[t].kind = c.kind
                      /\ thread'[t].fd = c.fd /\ thread'[t].to = c.to /\ thread'[t].table = table
                      /\ thread'[t].path = c.path /\ thread'[t].shown = c.shown
        /\ ~c.saved => thread'[t].pc = "user"
    BY OverFields, IdleType DEF Effected
  <1>2. c.saved => After(c, V) = After(thread'[t], V)
    BY <1>1 DEF After
  <1>3. c.saved => Right(mode, thread'[t], V)
    BY <1>1 DEF Right, Checked
  <1>4. ASSUME NEW fd \in Fds, Trusted(mode, t, fd)'
        PROVE  (IF c.saved THEN After(c, V) ELSE V)[fd] = table[fd]
    <2>1. CASE fd \in X
      BY <1>4, <2>1
    <2>2. CASE fd \notin X
      <3>1. ~(Leaving(t)' /\ thread'[t].kind \in {"open", "dup"} /\ thread'[t].to = fd)
        BY <1>1, <2>2 DEF Effected, Leaving
      <3>2. (Follows(t, fd)' <=> Follows(t, fd)) /\ (Wanted(t, fd)' <=> Wanted(t, fd))
            /\ table[fd] = files[t][fd]
        BY <2>2 DEF Effected, Follows, Wanted
      <3>3. Trusted(mode, t, fd)
        BY <1>4, <3>1, <3>2 DEF Trusted
      <3>4. V[fd] = files[t][fd]
        BY <3>3 DEF End
      <3> QED
        BY <2>2, <3>2, <3>4
    <2> QED
      BY <2>1, <2>2
  <1>5. files'[t] = table
    BY DEF Effected
  <1>6. CASE c.saved
    <2>1. thread'[t].pc = "submit" /\ Right(mode, thread'[t], V)
      BY <1>1, <1>3, <1>6
    <2>2. \A fd \in Fds : Trusted(mode, t, fd)' => After(thread'[t], V)[fd] = files'[t][fd]
      BY <1>2, <1>4, <1>5, <1>6
    <2> QED
      BY <2>1, <2>2 DEF End, Right, Checked, After
  <1>7. CASE ~c.saved
    BY <1>1, <1>4, <1>5, <1>7 DEF End
  <1> QED
    BY <1>6, <1>7

LEMMA AfterOf ==
  ASSUME NEW V \in Tables, NEW c
  PROVE  /\ c.kind = "open" /\ c.to \in Fds =>
              After(c, V)[c.to] = c.path /\ \A fd \in Fds \ {c.to} : After(c, V)[fd] = V[fd]
         /\ c.kind = "close" /\ c.fd \in Fds =>
              After(c, V)[c.fd] = NoPath /\ \A fd \in Fds \ {c.fd} : After(c, V)[fd] = V[fd]
         /\ c.kind \in {"dup", "dup2"} /\ c.to \in Fds =>
              /\ V[c.fd] # NoPath => After(c, V)[c.to] = V[c.fd]
              /\ \A fd \in Fds \ {c.to} : After(c, V)[fd] = V[fd]
         /\ c.kind \notin {"open", "close", "dup", "dup2"} => After(c, V) = V
  BY DEF After, Tables

\* What a call of the only thread of a process does, if nothing misleads.
OwnStep(t) ==
  /\ Apart(t) /\ CallInv(t)'
  /\ \A mode \in Modes, V \in Tables :
       Fine(mode)' /\ (mode = "shows" => Followings) /\ End(mode, t, V) => End(mode, t, V)'

LEMMA OpenOwn ==
  ASSUME TypeInv, NEW t \in Threads, process[t] = t, thread[t].pc = "call", CallInv(t), Open(t),
         UNCHANGED followed
  PROVE  OwnStep(t)
  <1>0. thread[t].path \in Paths
    BY DEF CallInv, Open
  <1>1. PICK fd \in Fds, c \in ThreadState :
          /\ Table(t)[fd] = NoPath
          /\ c = [thread[t] EXCEPT !.to = fd]
          /\ c.kind = "open" /\ c.to = fd /\ c.saved = thread[t].saved
          /\ Named(c, TRUE)
          /\ [Table(t) EXCEPT ![fd] = thread[t].path] \in [Fds -> Targets]
          /\ Return(t, c, [Table(t) EXCEPT ![fd] = thread[t].path])
          /\ Show(t, fd, thread[t].form # "odd")
          /\ causes' = Reusing(t, fd)
    BY OpenEffect
  <1>2. PICK table \in Tables : table = [files[t] EXCEPT ![fd] = thread[t].path]
    BY <1>1, TableType DEF Tables
  <1>3. files[t] \in Tables /\ files[t][fd] = NoPath /\ Return(t, c, table)
    BY <1>1, <1>2, TableType DEF Tables
  <1>4. c.path = thread[t].path /\ c.kind \in Kinds /\ thread[t].path # NoPath
    BY <1>0, <1>1, ThreadType, FdAssumption DEF TypeInv, ThreadState, Kinds
  <1>5. table[fd] = thread[t].path /\ \A f \in Fds \ {fd} : table[f] = files[t][f]
    BY <1>2, <1>3 DEF Tables
  <1>6. /\ \A x : (\E f \in {fd} : x = <<t, f>>) \/ (x \in shown' <=> x \in shown)
        /\ <<t, fd>> \in shown' => thread[t].form # "odd"
    BY <1>1 DEF Show
  <1>7. Effected(t, c, table, {fd})
    BY <1>1, <1>3, <1>4, <1>5, <1>6, ReturnEffected
  <1>12. c.kind = "open" /\ c.to = fd /\ c.saved = thread[t].saved /\ thread'[t] = Over(c, table)
    BY <1>1, <1>7 DEF Effected
  <1>8. ~Follows(t, fd)
    BY <1>3 DEF CallInv, Leaving
  <1>9. CallInv(t)'
    BY <1>0, <1>4, <1>5, <1>7, <1>8, <1>12, EffectedCalls
  <1>10. ASSUME NEW mode \in Modes, NEW V \in Tables, mode = "shows" => Followings, End(mode, t, V)
         PROVE  End(mode, t, V)'
    <2>1. After(c, V)[fd] = table[fd] /\ \A f \in Fds \ {fd} : After(c, V)[f] = V[f]
      BY <1>4, <1>5, <1>12, AfterOf
    <2>2. ~c.saved => ~Trusted(mode, t, fd)'
      <3> SUFFICES ASSUME ~c.saved, Trusted(mode, t, fd)' PROVE FALSE
        OBVIOUS
      <3>1. thread'[t] = Idle
        BY <1>7, OverFields DEF Effected
      <3>2. ~Leaving(t)' /\ ~Follows(t, fd)'
        BY <3>1, <1>8, IdleType DEF Leaving, Follows
      <3>3. mode = "shows" /\ Wanted(t, fd)'
        BY <3>2 DEF Trusted
      <3>4. thread[t].path \in Watched /\ thread[t].form # "odd"
        BY <3>3, <1>5, <1>6, <1>7 DEF Wanted, Effected
      <3>5. thread[t].kind = "open" /\ ~thread[t].saved
        BY <1>1 DEF Open
      <3> QED
        BY <1>10, <3>3, <3>4, <3>5 DEF Followings, DroppedUnwanted
    <2> QED
      BY <2>1, <2>2, <1>12, <1>7, <1>10, EffectedEnds
  <1> QED
    BY <1>7, <1>9, <1>10, EffectedApart DEF OwnStep

LEMMA CloseOwn ==
  ASSUME TypeInv, NEW t \in Threads, process[t] = t, thread[t].pc = "call", CallInv(t), Close(t),
         UNCHANGED followed
  PROVE  OwnStep(t)
  <1>1. PICK c \in ThreadState, fd \in Fds :
          /\ c = thread[t] /\ fd = c.fd
          /\ c.kind = "close" /\ Named(c, TRUE)
          /\ [Table(t) EXCEPT ![fd] = NoPath] \in [Fds -> Targets]
          /\ Return(t, c, [Table(t) EXCEPT ![fd] = NoPath])
          /\ Show(t, fd, FALSE)
    BY CloseEffect
  <1>2. PICK table \in Tables : table = [files[t] EXCEPT ![fd] = NoPath]
    BY <1>1, TableType DEF Tables
  <1>4. Table(t) = files[t] /\ files[t] \in Tables
    BY TableType DEF Tables
  <1>3. files[t] \in Tables /\ Return(t, c, table) /\ c.kind \in Kinds /\ c.saved = thread[t].saved
    BY <1>1, <1>2, <1>4 DEF Kinds
  <1>5. table[fd] = NoPath /\ \A f \in Fds \ {fd} : table[f] = files[t][f]
    BY <1>2, <1>3 DEF Tables
  <1>6. \A x : (\E f \in {fd} : x = <<t, f>>) \/ (x \in shown' <=> x \in shown)
    BY <1>1 DEF Show
  <1>7. Effected(t, c, table, {fd})
    BY <1>1, <1>3, <1>5, <1>6, ReturnEffected
  <1>8. c.saved <=> Follows(t, fd)
    BY <1>1 DEF CallInv
  <1>9. CallInv(t)'
    BY <1>1, <1>7, <1>8, EffectedCalls
  <1>10. ASSUME NEW mode \in Modes, NEW V \in Tables, End(mode, t, V)
         PROVE  End(mode, t, V)'
    <2>1. After(c, V)[fd] = table[fd] /\ \A f \in Fds \ {fd} : After(c, V)[f] = V[f]
      BY <1>1, <1>5, AfterOf
    <2>2. ~c.saved => ~Trusted(mode, t, fd)'
      <3> SUFFICES ASSUME ~c.saved, Trusted(mode, t, fd)' PROVE FALSE
        OBVIOUS
      <3>1. thread'[t] = Idle
        BY <1>7, OverFields DEF Effected
      <3>2. ~Leaving(t)' /\ ~Follows(t, fd)'
        BY <3>1, <1>8, IdleType DEF Leaving, Follows
      <3>3. Wanted(t, fd)'
        BY <3>2 DEF Trusted
      <3> QED
        BY <3>3, <1>5, <1>7, Limits DEF Wanted, Effected
    <2> QED
      BY <2>1, <2>2, <1>1, <1>7, <1>10, EffectedEnds
  <1> QED
    BY <1>7, <1>9, <1>10, EffectedApart DEF OwnStep

LEMMA DupOwn ==
  ASSUME TypeInv, NEW t \in Threads, process[t] = t, thread[t].pc = "call", CallInv(t), Dup(t),
         UNCHANGED followed
  PROVE  OwnStep(t)
  <1>1. PICK fd \in Fds, c \in ThreadState :
          /\ Table(t)[fd] = NoPath /\ thread[t].fd \in Fds /\ fd # thread[t].fd
          /\ c.kind = "dup" /\ c.fd = thread[t].fd /\ c.to = fd /\ c.saved = thread[t].saved
          /\ Named(c, TRUE)
          /\ Return(t, c, [Table(t) EXCEPT ![fd] = Table(t)[thread[t].fd]])
          /\ Show(t, fd, Shown(t, thread[t].fd))
    BY DupEffect
  <1>2. PICK source \in Fds : source = thread[t].fd
    BY <1>1
  <1>3. Table(t) = files[t] /\ files[t] \in Tables
    BY TableType DEF Tables
  <1>4. files[t][fd] = NoPath /\ files[t][source] # NoPath /\ thread[t].kind = "dup"
    BY <1>1, <1>2, <1>3 DEF Dup
  <1>5. PICK table \in Tables : table = [files[t] EXCEPT ![fd] = files[t][source]]
    BY <1>3 DEF Tables
  <1>6. table[fd] = files[t][source] /\ \A f \in Fds \ {fd} : table[f] = files[t][f]
    BY <1>3, <1>5 DEF Tables
  <1>7. c.kind = "dup" /\ c.fd = source /\ c.to = fd /\ c.saved = thread[t].saved /\ c.kind \in Kinds
        /\ Named(c, TRUE) /\ fd # source
    BY <1>1, <1>2 DEF Kinds
  <1>8. Return(t, c, table)
    BY <1>1, <1>2, <1>3, <1>5
  <1>9. /\ \A x : (\E f \in {fd} : x = <<t, f>>) \/ (x \in shown' <=> x \in shown)
        /\ <<t, fd>> \in shown' => <<t, source>> \in shown
    BY <1>1, <1>2 DEF Show, Shown
  <1>10. Effected(t, c, table, {fd})
    BY <1>4, <1>6, <1>7, <1>8, <1>9, ReturnEffected
  <1>11. thread'[t] = Over(c, table) /\ files'[t] = table
    BY <1>10 DEF Effected
  <1>12. ~Follows(t, fd) /\ (c.saved <=> Follows(t, source))
    BY <1>2, <1>4, <1>7 DEF CallInv, Leaving
  <1>13. CallInv(t)'
    BY <1>7, <1>10, <1>12, EffectedCalls
  <1>14. ASSUME NEW mode \in Modes, NEW V \in Tables, mode = "shows" => Followings, End(mode, t, V)
         PROVE  End(mode, t, V)'
    <2>1. /\ V[source] # NoPath => After(c, V)[fd] = V[source]
          /\ \A f \in Fds \ {fd} : After(c, V)[f] = V[f]
      BY <1>7, AfterOf
    <2>2. Wanted(t, fd)' => Wanted(t, source)
      BY <1>6, <1>9, <1>11 DEF Wanted
    <2>3. ASSUME Trusted(mode, t, fd)' PROVE c.saved /\ Trusted(mode, t, source)
      <3>1. CASE mode = "line"
        <4>1. c.saved
          <5>1. ~c.saved => thread'[t] = Idle
            BY <1>11, OverFields
          <5> QED
            BY <2>3, <3>1, <5>1, <1>12, IdleType DEF Trusted, Leaving, Follows
        <4> QED
          BY <3>1, <4>1, <1>12 DEF Trusted
      <3>2. CASE mode = "shows"
        <4>1. Wanted(t, source)
          BY <2>2, <2>3, <3>2 DEF Trusted
        <4>2. thread[t].saved
          BY <1>2, <1>4, <1>14, <3>2, <4>1 DEF Followings, DroppedUnwanted
        <4> QED
          BY <3>2, <4>1, <4>2, <1>7 DEF Trusted
      <3> QED
        BY <3>1, <3>2 DEF Modes
    <2>4. Trusted(mode, t, fd)' => c.saved /\ After(c, V)[fd] = table[fd]
      BY <2>1, <2>3, <1>4, <1>6, <1>14 DEF End
    <2> QED
      BY <2>1, <2>4, <1>7, <1>10, <1>14, EffectedEnds
  <1> QED
    BY <1>10, <1>13, <1>14, EffectedApart DEF OwnStep

LEMMA Dup2Own ==
  ASSUME TypeInv, NEW t \in Threads, process[t] = t, thread[t].pc = "call", CallInv(t), Dup2(t),
         UNCHANGED followed
  PROVE  OwnStep(t)
  <1>1. PICK c \in ThreadState, fd \in Fds :
          /\ c = thread[t] /\ fd = c.to /\ c.fd \in Fds
          /\ c.kind = "dup2" /\ Named(c, TRUE)
          /\ Return(t, c, [Table(t) EXCEPT ![fd] = Table(t)[c.fd]])
          /\ Show(t, fd, FALSE)
          /\ causes' = causes \cup {"dup2"}
    BY Dup2Effect
  <1>2. PICK source \in Fds : source = c.fd
    BY <1>1
  <1>3. Table(t) = files[t] /\ files[t] \in Tables
    BY TableType DEF Tables
  <1>4. files[t][source] # NoPath
    BY <1>1, <1>2, <1>3 DEF Dup2
  <1>5. PICK table \in Tables : table = [files[t] EXCEPT ![fd] = files[t][source]]
    BY <1>3 DEF Tables
  <1>6. table[fd] = files[t][source] /\ \A f \in Fds \ {fd} : table[f] = files[t][f]
    BY <1>3, <1>5 DEF Tables
  <1>7. c.kind = "dup2" /\ c.to = fd /\ c.saved = thread[t].saved /\ c.kind \in Kinds /\ Named(c, TRUE)
    BY <1>1 DEF Kinds
  <1>8. Return(t, c, table)
    BY <1>1, <1>2, <1>3, <1>5
  <1>9. /\ \A x : (\E f \in {fd} : x = <<t, f>>) \/ (x \in shown' <=> x \in shown)
        /\ <<t, fd>> \notin shown'
    BY <1>1 DEF Show
  <1>10. Effected(t, c, table, {fd})
    BY <1>6, <1>7, <1>8, <1>9, ReturnEffected
  <1>11. thread'[t] = Over(c, table) /\ table[fd] # NoPath
    BY <1>4, <1>6, <1>10 DEF Effected
  <1>12. CallInv(t)'
    BY <1>7, <1>10, <1>11, EffectedCalls
  <1>13. ASSUME NEW mode \in Modes, NEW V \in Tables, Fine(mode)', End(mode, t, V)
         PROVE  End(mode, t, V)'
    <2>1. \A f \in Fds \ {fd} : After(c, V)[f] = V[f]
      BY <1>7, AfterOf
    <2>2. mode # "line"
      BY <1>1, <1>13 DEF Fine
    <2>3. ~Trusted(mode, t, fd)'
      BY <1>9, <2>2 DEF Trusted, Wanted
    <2> QED
      BY <2>1, <2>3, <1>7, <1>10, <1>13, EffectedEnds
  <1> QED
    BY <1>10, <1>12, <1>13, EffectedApart DEF OwnStep

\* A use, or a call that failed.
LEMMA NothingOwn ==
  ASSUME TypeInv, NEW t \in Threads, process[t] = t, thread[t].pc = "call", CallInv(t),
         NEW c \in ThreadState, c.kind \in {"use", "failed"}, Named(c, TRUE), c.saved = thread[t].saved,
         c.kind = "use" => c.fd \in Fds /\ (c.saved => Follows(t, c.fd)) /\ c.shown = Shown(t, c.fd),
         Return(t, c, Table(t)), UNCHANGED <<followed, shown>>
  PROVE  OwnStep(t)
  <1>1. Table(t) = files[t] /\ files[t] \in Tables
    BY TableType DEF Tables
  <1>2. PICK table \in Tables : table = files[t]
    BY <1>1
  <1>3. c.kind \in Kinds /\ c.kind \notin {"open", "close", "dup", "dup2"} /\ Return(t, c, table)
    BY <1>1, <1>2 DEF Kinds
  <1>4. PICK X \in SUBSET Fds : X = {}
    OBVIOUS
  <1>5. Effected(t, c, table, X)
    <2>1. \A fd \in Fds \ X : table[fd] = files[t][fd]
      BY <1>2
    <2>2. \A x : (\E fd \in X : x = <<t, fd>>) \/ (x \in shown' <=> x \in shown)
      OBVIOUS
    <2> QED
      BY <1>3, <2>1, <2>2, ReturnEffected
  <1>6. CallInv(t)'
    BY <1>3, <1>4, <1>5, EffectedCalls
  <1>7. ASSUME NEW mode \in Modes, NEW V \in Tables, End(mode, t, V)
        PROVE  End(mode, t, V)'
    <2>1. \A f \in Fds : After(c, V)[f] = V[f]
      BY <1>3, AfterOf
    <2>2. ASSUME c.saved, c.kind = "use", mode = "line" \/ (c.shown /\ table[c.fd] \in Watched)
          PROVE  V[c.fd] = table[c.fd]
      <3>1. Trusted(mode, t, c.fd)
        BY <1>2, <2>2 DEF Trusted, Wanted, Modes, Shown
      <3> QED
        BY <1>2, <1>7, <2>2, <3>1 DEF End
    <2>3. \A fd \in Fds \ X : After(c, V)[fd] = V[fd]
      BY <2>1
    <2>4. \A fd \in X : Trusted(mode, t, fd)' =>
            (IF c.saved THEN After(c, V) ELSE V)[fd] = table[fd]
      BY <1>4
    <2> QED
      BY <2>2, <2>3, <2>4, <1>5, <1>7, EffectedEnds
  <1> QED
    BY <1>5, <1>6, <1>7, EffectedApart DEF OwnStep

LEMMA EffectOwn ==
  ASSUME TypeInv, NEW t \in Threads, process[t] = t, CallInv(t), Effect(t)
  PROVE  OwnStep(t)
  <1>1. thread[t].pc = "call" /\ UNCHANGED followed
    BY DEF Effect
  <1>2. CASE Open(t)
    BY <1>1, <1>2, OpenOwn
  <1>3. CASE Close(t)
    BY <1>1, <1>3, CloseOwn
  <1>4. CASE Dup(t)
    BY <1>1, <1>4, DupOwn
  <1>5. CASE Dup2(t)
    BY <1>1, <1>5, Dup2Own
  <1>6. CASE Use(t)
    <2>1. PICK c \in ThreadState :
            /\ thread[t].kind = "use" /\ thread[t].fd \in Fds
            /\ c.kind = "use" /\ c.fd = thread[t].fd
            /\ c.saved = thread[t].saved /\ c.shown = Shown(t, c.fd)
            /\ Named(c, TRUE) /\ Return(t, c, Table(t)) /\ UNCHANGED shown
      BY <1>1, <1>6, UseEffect
    <2>2. c.saved => Follows(t, c.fd)
      BY <1>1, <2>1 DEF CallInv
    <2> QED
      BY <1>1, <2>1, <2>2, NothingOwn
  <1>7. CASE Fail(t)
    <2>1. PICK c \in ThreadState :
            /\ c.kind = "failed" /\ c.saved = thread[t].saved
            /\ Named(c, TRUE) /\ Return(t, c, Table(t)) /\ UNCHANGED shown
      BY <1>1, <1>7, FailEffect
    <2> QED
      BY <1>1, <2>1, NothingOwn
  <1> QED
    BY <1>2, <1>3, <1>4, <1>5, <1>6, <1>7 DEF Effect

-----------------------------------------------------------------------------
(* sys_exit, and a new process.                                             *)

LEMMA SubmitOwn ==
  ASSUME TypeInv, NEW t \in Threads, process[t] = t, CallInv(t), Submit(t), NEW r, r = RecordOf(t)
  PROVE  /\ Apart(t) /\ CallInv(t)'
         /\ \A mode \in Modes :
              /\ End(mode, t, r.table)'
              /\ \A V : End(mode, t, V) => Right(mode, r, V) /\ End(mode, t, After(r, V))'
  <1>1. thread[t].pc = "submit" /\ UNCHANGED <<process, files, followed, shown>>
    BY DEF Submit
  <1>2. PICK d \in ThreadState :
          /\ d.pc = "follow" /\ d.kind = thread[t].kind
          /\ d.fd = thread[t].fd /\ d.to = thread[t].to
          /\ Settled(d)
          /\ thread' = [thread EXCEPT ![t] = d]
    BY SubmitStep
  <1>3. thread'[t] = d /\ OthersWait(t)
    BY <1>2, ThreadSet DEF TypeInv, OthersWait
  <1>4. Leaving(t) /\ Leaving(t)' /\ thread'[t].pc = "follow" /\ thread'[t].kind = thread[t].kind
        /\ thread'[t].fd = thread[t].fd /\ thread'[t].to = thread[t].to
    BY <1>1, <1>2, <1>3 DEF Leaving
  <1>5. Apart(t)
    BY <1>1, <1>3 DEF Apart, Follows
  <1>6. CallInv(t)'
    BY <1>1, <1>4 DEF CallInv, Follows
  <1>7. \A mode, fd : Trusted(mode, t, fd)' <=> Trusted(mode, t, fd)
    BY <1>1, <1>4 DEF Trusted, Follows, Wanted
  <1>8. r.kind = thread[t].kind /\ r.fd = thread[t].fd /\ r.to = thread[t].to
        /\ r.path = thread[t].path /\ r.shown = thread[t].shown /\ r.table = thread[t].table
    BY DEF RecordOf
  <1>9. r.table = files[t]
    BY <1>1, <1>8 DEF CallInv
  <1>10. ASSUME NEW mode \in Modes, NEW V, End(mode, t, V)
         PROVE  Right(mode, r, V) /\ End(mode, t, After(r, V))'
    <2>1. Right(mode, r, V)
      BY <1>1, <1>8, <1>10 DEF End, Right, Checked
    <2>2. After(thread[t], V) = After(r, V)
      BY <1>8 DEF After
    <2>3. PICK W : W = After(r, V)
      OBVIOUS
    <2>4. \A fd \in Fds : Trusted(mode, t, fd) => W[fd] = files[t][fd]
      BY <1>1, <1>10, <2>2, <2>3 DEF End
    <2>5. End(mode, t, W)'
      BY <1>1, <1>4, <1>7, <2>4 DEF End
    <2> QED
      BY <2>1, <2>3, <2>5
  <1>11. ASSUME NEW mode \in Modes PROVE End(mode, t, r.table)'
    <2>1. PICK W : W = r.table
      OBVIOUS
    <2>2. End(mode, t, W)'
      BY <1>1, <1>4, <1>9, <2>1 DEF End
    <2> QED
      BY <2>1, <2>2
  <1> QED
    BY <1>5, <1>6, <1>10, <1>11

LEMMA FollowOwn ==
  ASSUME TypeInv, NEW t \in Threads, process[t] = t, CallInv(t), Follow(t)
  PROVE  /\ Apart(t) /\ CallInv(t)'
         /\ \A mode \in Modes : \A V : End(mode, t, V) => End(mode, t, V)'
  <1>1. thread[t].pc = "follow" /\ UNCHANGED <<process, files, shown>>
        /\ thread' = [thread EXCEPT ![t] = Idle] /\ Settled(Idle)
        /\ UpdateWatchFds(t, thread[t])
    BY IdleType DEF Follow, Settled, Named
  <1>2. thread'[t] = Idle /\ OthersWait(t)
    BY <1>1, ThreadSet DEF TypeInv, OthersWait
  <1>3. Leaving(t) /\ ~Leaving(t)' /\ thread'[t].pc = "user" /\ Named(thread[t], TRUE)
    BY <1>1, <1>2, IdleType DEF Leaving, TypeInv, ThreadInv
  <1>4. /\ \A p \in Threads \ {t}, fd \in Fds : Follows(p, fd)' <=> Follows(p, fd)
        /\ \A fd \in Fds : Follows(t, fd)' =>
             Follows(t, fd) \/ (thread[t].kind \in {"open", "dup"} /\ thread[t].to = fd)
        /\ thread[t].kind = "close" => \A fd \in Fds : fd = thread[t].fd => ~Follows(t, fd)'
    <2>1. CASE thread[t].kind \in {"open", "dup"} /\ Insert(<<t, thread[t].to>>)
      BY <2>1 DEF Insert, Follows
    <2>2. CASE thread[t].kind = "close" /\ Remove(<<t, thread[t].fd>>)
      BY <2>2 DEF Remove, Follows
    <2>3. CASE thread[t].kind = "dup" /\ Remove(<<t, thread[t].to>>)
      BY <2>3 DEF Remove, Follows
    <2>4. CASE thread[t].kind \in {"dup2", "use", "failed"} /\ UNCHANGED followed
      BY <2>4 DEF Follows
    <2> QED
      BY <1>1, <2>1, <2>2, <2>3, <2>4 DEF UpdateWatchFds
  <1>5. Apart(t)
    BY <1>1, <1>2, <1>4 DEF Apart
  <1>6. CallInv(t)'
    <2>1. ASSUME NEW fd \in Fds, Follows(t, fd)', files[t][fd] = NoPath PROVE FALSE
      <3>1. CASE Follows(t, fd)
        BY <2>1, <3>1, <1>4 DEF CallInv
      <3>2. CASE thread[t].kind \in {"open", "dup"} /\ thread[t].to = fd
        BY <2>1, <3>2, <1>3 DEF CallInv
      <3> QED
        BY <2>1, <3>1, <3>2, <1>4
    <2> QED
      BY <2>1, <1>1, <1>3 DEF CallInv
  <1>7. ASSUME NEW mode \in Modes, NEW V, End(mode, t, V)
        PROVE  End(mode, t, V)'
    <2>1. \A fd \in Fds : Trusted(mode, t, fd)' => Trusted(mode, t, fd)
      BY <1>1, <1>3, <1>4 DEF Trusted, Wanted
    <2> QED
      BY <1>1, <1>3, <1>7, <2>1 DEF End
  <1> QED
    BY <1>5, <1>6, <1>7

\* A process that has done nothing yet: of its descriptors nothing is said.
LEMMA NewEnds ==
  ASSUME thread'[Other].pc = "user",
         \A fd \in Fds : <<Other, fd>> \notin followed' /\ <<Other, fd>> \notin shown'
  PROVE  CallInv(Other)' /\ \A mode, V : End(mode, Other, V)'
  <1>1. ~Leaving(Other)'
    BY DEF Leaving
  <1>2. CallInv(Other)'
    BY <1>1 DEF CallInv, Follows
  <1>3. ASSUME NEW mode, NEW V PROVE End(mode, Other, V)'
    <2>1. \A fd \in Fds : ~Trusted(mode, Other, fd)'
      BY <1>1 DEF Trusted, Wanted, Follows
    <2> QED
      BY <2>1 DEF End
  <1> QED
    BY <1>2, <1>3

-----------------------------------------------------------------------------
(* The cache mirrors the descriptors.                                       *)

SingleInv ==
  /\ process[Other] = Main => \A fd \in Fds : ~Follows(Other, fd)
  /\ Single => \A p \in Threads : CallInv(p)

\* A second thread is announced before it says anything.
RecordsInv ==
  causes \cap {"lost", "split"} = {} =>
    /\ ~Single => \E i \in DOMAIN ring : ring[i].kind = "fork"
    /\ \A i \in DOMAIN ring : Before(i) =>
         /\ ring[i].thread = Other => process[Other] = Other
         /\ ring[i].kind = "open" =>
              ring[i].path \in Paths /\ ring[i].table[ring[i].to] = ring[i].path

Mirrors(mode) ==
  /\ \A p \in known : /\ owner[p] = p /\ (p = Other => process[Other] = Other)
                       /\ Fits(mode, cached[p], p, 0)
  /\ \A i \in DOMAIN ring : ring[i].kind # "fork" /\ Before(i) =>
       Fits(mode, ring[i].table, ring[i].thread, i)
  /\ \A i \in DOMAIN ring : ring[i].kind = "fork" /\ Single =>
       \A V \in Tables : Fits(mode, V, Other, i)

MirrorInv == \A mode \in Modes : Fine(mode) => Mirrors(mode)

\* What the cache and the records said before is still so.
LEMMA MirrorsStay ==
  ASSUME TypeInv, NEW mode, Mirrors(mode), Single' => Single, UNCHANGED cache,
         Other \in known => process'[Other] = process[Other],
         \A T : \A p \in Threads, i \in 0 .. Len(ring) : Fits(mode, T, p, i) => Fits(mode, T, p, i)',
         DOMAIN ring \subseteq DOMAIN ring', \A i \in DOMAIN ring : ring'[i] = ring[i]
  PROVE  /\ \A p \in known' :
              owner'[p] = p /\ (p = Other => process'[Other] = Other) /\ Fits(mode, cached[p], p, 0)'
         /\ \A i \in DOMAIN ring : ring[i].kind # "fork" /\ Before(i)' =>
              Fits(mode, ring[i].table, ring[i].thread, i)'
         /\ \A i \in DOMAIN ring : ring[i].kind = "fork" /\ Single' =>
              \A V \in Tables : Fits(mode, V, Other, i)'
  <1>1. DOMAIN ring = 1 .. Len(ring) /\ Len(ring) \in Nat
        /\ \A i \in DOMAIN ring : ring[i].thread \in Threads
    BY RingType DEF TypeInv, Record
  <1>2. ASSUME NEW p \in known'
        PROVE  owner'[p] = p /\ (p = Other => process'[Other] = Other) /\ Fits(mode, cached[p], p, 0)'
    <2>1. p \in known /\ p \in Threads /\ owner' = owner /\ cached' = cached
      BY DEF cache, TypeInv
    <2>2. owner[p] = p /\ (p = Other => process[Other] = Other) /\ Fits(mode, cached[p], p, 0)
      BY <2>1 DEF Mirrors
    <2>3. PICK T : T = cached[p]
      OBVIOUS
    <2>4. Fits(mode, T, p, 0)'
      BY <1>1, <2>1, <2>2, <2>3
    <2> QED
      BY <2>1, <2>2, <2>3, <2>4 DEF Fits
  <1>3. ASSUME NEW i \in DOMAIN ring, ring[i].kind # "fork", Before(i)'
        PROVE  Fits(mode, ring[i].table, ring[i].thread, i)'
    <2>1. Before(i)
      <3>1. CASE Single
        BY <3>1 DEF Before
      <3>2. CASE ~Single
        <4>1. \A j \in 1 .. i : j \in DOMAIN ring /\ ring'[j] = ring[j]
          BY <1>1
        <4> QED
          BY <1>3, <3>2, <4>1 DEF Before
      <3> QED
        BY <3>1, <3>2
    <2>2. Fits(mode, ring[i].table, ring[i].thread, i)
      BY <1>3, <2>1 DEF Mirrors
    <2>3. PICK T : T = ring[i].table
      OBVIOUS
    <2>4. PICK p \in Threads : p = ring[i].thread
      BY <1>1
    <2>5. Fits(mode, T, p, i)'
      BY <1>1, <2>2, <2>3, <2>4
    <2>6. ring'[i] = ring[i]
      OBVIOUS
    <2> QED
      BY <2>3, <2>4, <2>5, <2>6 DEF Fits
  <1>4. ASSUME NEW i \in DOMAIN ring, ring[i].kind = "fork", Single', NEW V \in Tables
        PROVE  Fits(mode, V, Other, i)'
    <2>1. Fits(mode, V, Other, i)
      BY <1>4 DEF Mirrors
    <2>2. i \in 0 .. Len(ring)
      BY <1>1
    <2> QED
      BY <2>1, <2>2, Limits
  <1> QED
    BY <1>2, <1>3, <1>4

\* No record comes.
LEMMA MirrorsKept ==
  ASSUME TypeInv, NEW mode, Mirrors(mode), UNCHANGED <<process, ring, cache>>, Single' <=> Single,
         Single => \A p \in Threads, V \in Tables : End(mode, p, V) => End(mode, p, V)'
  PROVE  Mirrors(mode)'
  <1>1. ASSUME NEW T, NEW p \in Threads, NEW i \in 0 .. Len(ring), Fits(mode, T, p, i)
        PROVE  Fits(mode, T, p, i)'
    <2>1. Single => \A V \in Tables : End(mode, p, V) => End(mode, p, V)'
      OBVIOUS
    <2>2. RingInv /\ UNCHANGED ring
      BY DEF TypeInv
    <2> QED
      BY <1>1, <2>1, <2>2, FitsKept
  <1>2. \A T : \A p \in Threads, i \in 0 .. Len(ring) : Fits(mode, T, p, i) => Fits(mode, T, p, i)'
    BY <1>1
  <1>3. /\ \A p \in known' :
             owner'[p] = p /\ (p = Other => process'[Other] = Other) /\ Fits(mode, cached[p], p, 0)'
        /\ \A i \in DOMAIN ring : ring[i].kind # "fork" /\ Before(i)' =>
             Fits(mode, ring[i].table, ring[i].thread, i)'
        /\ \A i \in DOMAIN ring : ring[i].kind = "fork" /\ Single' =>
             \A V \in Tables : Fits(mode, V, Other, i)'
    BY <1>2, MirrorsStay
  <1> QED
    BY <1>3 DEF Mirrors

\* A record comes: if the threads are still one to a process, the truth goes through it.
LEMMA MirrorsGrow ==
  ASSUME TypeInv, RingInv', NEW mode, Mirrors(mode), NEW r \in Record, Submitted(r), UNCHANGED cache,
         Other \in known => process'[Other] = process[Other],
         NEW n \in Nat, n = Len(ring), Single' => Single, ~Single' => ~Before(n + 1)',
         Single' => \A p \in Threads, V \in Tables : End(mode, p, V) =>
           /\ r.thread = p => Right(mode, r, V)
           /\ End(mode, p, Result(p, r, V))',
         Single' /\ r.kind # "fork" => r.table \in Tables /\ End(mode, r.thread, r.table)',
         Single' /\ r.kind = "fork" => \A V \in Tables : End(mode, Other, V)'
  PROVE  Mirrors(mode)'
  <1>1. RingInv /\ DOMAIN ring = 1 .. n /\ DOMAIN ring' = 1 .. (n + 1) /\ ring'[n + 1] = r
        /\ DOMAIN ring \subseteq DOMAIN ring' /\ \A i \in DOMAIN ring : ring'[i] = ring[i]
    BY RingType DEF TypeInv, Submitted
  <1>2. Len(ring') = n + 1
    <2>1. ring' \in Seq(Record)
      BY DEF RingInv
    <2>2. Len(ring') \in Nat /\ DOMAIN ring' = 1 .. Len(ring')
      BY <2>1, LenProperties
    <2>3. n + 1 \in Nat /\ 1 .. Len(ring') = 1 .. (n + 1)
      BY <1>1, <2>2
    <2> QED
      BY <2>2, <2>3, SameLength
  <1>3. ASSUME NEW T, NEW p \in Threads, NEW i \in 0 .. Len(ring), Fits(mode, T, p, i)
        PROVE  Fits(mode, T, p, i)'
    <2>1. CASE Single'
      <3>1. \A V \in Tables : End(mode, p, V) =>
              /\ r.thread = p => Right(mode, r, V)
              /\ End(mode, p, Result(p, r, V))'
        BY <2>1
      <3>2. Single
        BY <2>1
      <3> QED
        BY <1>1, <1>3, <2>1, <3>1, <3>2, FitsThrough
    <2>2. CASE ~Single'
      <3>1. ~Before(n + 1)'
        BY <2>2
      <3> QED
        BY <1>1, <1>3, <2>2, <3>1, FitsAhead
    <2> QED
      BY <2>1, <2>2
  <1>4. \A T : \A p \in Threads, i \in 0 .. Len(ring) : Fits(mode, T, p, i) => Fits(mode, T, p, i)'
    BY <1>3
  <1>5. /\ \A p \in known' :
             owner'[p] = p /\ (p = Other => process'[Other] = Other) /\ Fits(mode, cached[p], p, 0)'
        /\ \A i \in DOMAIN ring : ring[i].kind # "fork" /\ Before(i)' =>
             Fits(mode, ring[i].table, ring[i].thread, i)'
        /\ \A i \in DOMAIN ring : ring[i].kind = "fork" /\ Single' =>
             \A V \in Tables : Fits(mode, V, Other, i)'
    BY <1>1, <1>4, MirrorsStay
  <1>6. ASSUME NEW p, NEW V \in Tables, End(mode, p, V)' PROVE Fits(mode, V, p, n + 1)'
    <2>1. PICK s \in [Nat -> Tables] : s = [k \in Nat |-> V]
      OBVIOUS
    <2>2. s[n + 1] = V /\ s[Len(ring')] = V /\ \A k \in DOMAIN ring' : ~(k > n + 1)
      BY <2>1, <1>1, <1>2
    <2>3. End(mode, p, s[Len(ring)])'
      BY <1>6, <2>2 DEF End
    <2> QED
      BY <2>2, <2>3 DEF Fits
  <1>7. ASSUME Before(n + 1)', r.kind # "fork" PROVE Fits(mode, ring[n + 1].table, ring[n + 1].thread, n + 1)'
    <2>1. PICK V \in Tables, p \in Threads : V = r.table /\ p = r.thread
      BY <1>7 DEF Record, Tables
    <2>2. End(mode, p, V)'
      BY <1>7, <2>1 DEF End
    <2>3. Fits(mode, V, p, n + 1)'
      BY <1>6, <2>2
    <2> QED
      BY <2>1, <2>3, <1>1 DEF Fits
  <1>8. ASSUME Single', r.kind = "fork", NEW V \in Tables PROVE Fits(mode, V, Other, n + 1)'
    BY <1>6, <1>8
  <1>9. \A i \in DOMAIN ring' : i \in DOMAIN ring \/ i = n + 1
    BY <1>1
  <1> QED
    BY <1>1, <1>5, <1>7, <1>8, <1>9 DEF Mirrors

-----------------------------------------------------------------------------
(* The steps of the threads.                                                *)

LEMMA EffectLeaves ==
  ASSUME TypeInv, NEW t \in Threads, Effect(t)
  PROVE  OthersWait(t) /\ thread'[t].pc # "absent"
  <1>1. thread[t].pc = "call"
    BY DEF Effect
  <1>2. ASSUME NEW c \in ThreadState, c.kind \in Kinds, Named(c, TRUE), NEW table \in [Fds -> Targets],
               Return(t, c, table)
        PROVE  OthersWait(t) /\ thread'[t].pc # "absent"
    <2>1. OthersWait(t) /\ LeftAs(t, c)
      BY <1>2, ReturnLeaves
    <2> QED
      BY <2>1, IdleType DEF LeftAs
  <1>3. CASE Open(t)
    <2>1. PICK fd \in Fds, c \in ThreadState :
            /\ c.kind = "open" /\ Named(c, TRUE)
            /\ [Table(t) EXCEPT ![fd] = thread[t].path] \in [Fds -> Targets]
            /\ Return(t, c, [Table(t) EXCEPT ![fd] = thread[t].path])
      BY <1>1, <1>3, OpenEffect
    <2> QED
      BY <1>2, <2>1 DEF Kinds
  <1>4. CASE Close(t)
    <2>1. /\ thread[t] \in ThreadState /\ thread[t].kind = "close" /\ Named(thread[t], TRUE)
          /\ [Table(t) EXCEPT ![thread[t].fd] = NoPath] \in [Fds -> Targets]
          /\ Return(t, thread[t], [Table(t) EXCEPT ![thread[t].fd] = NoPath])
      BY <1>1, <1>4, CloseEffect
    <2> QED
      BY <1>2, <2>1 DEF Kinds
  <1>5. CASE Dup(t)
    <2>1. PICK fd \in Fds, c \in ThreadState :
            /\ c.kind = "dup" /\ Named(c, TRUE)
            /\ [Table(t) EXCEPT ![fd] = Table(t)[thread[t].fd]] \in [Fds -> Targets]
            /\ Return(t, c, [Table(t) EXCEPT ![fd] = Table(t)[thread[t].fd]])
      BY <1>1, <1>5, DupEffect
    <2> QED
      BY <1>2, <2>1 DEF Kinds
  <1>6. CASE Dup2(t)
    <2>1. /\ thread[t] \in ThreadState /\ thread[t].kind = "dup2" /\ Named(thread[t], TRUE)
          /\ [Table(t) EXCEPT ![thread[t].to] = Table(t)[thread[t].fd]] \in [Fds -> Targets]
          /\ Return(t, thread[t], [Table(t) EXCEPT ![thread[t].to] = Table(t)[thread[t].fd]])
      BY <1>1, <1>6, Dup2Effect
    <2> QED
      BY <1>2, <2>1 DEF Kinds
  <1>7. CASE Use(t)
    <2>1. PICK c \in ThreadState : c.kind = "use" /\ Named(c, TRUE) /\ Return(t, c, Table(t))
      BY <1>1, <1>7, UseEffect
    <2> QED
      BY <1>2, <2>1, TableType DEF Kinds
  <1>8. CASE Fail(t)
    <2>1. PICK c \in ThreadState : c.kind = "failed" /\ Named(c, TRUE) /\ Return(t, c, Table(t))
      BY <1>1, <1>8, FailEffect
    <2> QED
      BY <1>2, <2>1, TableType DEF Kinds
  <1> QED
    BY <1>3, <1>4, <1>5, <1>6, <1>7, <1>8 DEF Effect

LEMMA StepSingle ==
  ASSUME TypeInv, NEW t \in Threads, ThreadStep(t)
  PROVE  /\ thread[t].pc # "absent" /\ UNCHANGED process /\ (Single' <=> Single)
         /\ \A fd \in Fds, p \in Threads : Follows(p, fd)' => Follows(p, fd) \/ p = process[t]
  <1>1. thread[t].pc # "absent" /\ thread'[t].pc # "absent" /\ OthersWait(t)
    <2>1. CASE Enter(t)
      <3>1. PICK d \in ThreadState : Settled(d) /\ thread' = [thread EXCEPT ![t] = d]
        BY <2>1, EnterStep
      <3> QED
        BY <2>1, <3>1, ThreadSet DEF Enter, TypeInv, OthersWait, Settled
    <2>2. CASE Effect(t)
      BY <2>2, EffectLeaves DEF Effect
    <2>3. CASE Submit(t)
      <3>1. PICK d \in ThreadState : Settled(d) /\ thread' = [thread EXCEPT ![t] = d]
        BY <2>3, SubmitStep
      <3> QED
        BY <2>3, <3>1, ThreadSet DEF Submit, TypeInv, OthersWait, Settled
    <2>4. CASE Follow(t)
      <3>1. Settled(Idle) /\ thread' = [thread EXCEPT ![t] = Idle] /\ thread[t].pc = "follow"
        BY <2>4, IdleType DEF Follow, Settled, Named
      <3> QED
        BY <3>1, ThreadSet DEF TypeInv, OthersWait, Settled
    <2> QED
      BY <2>1, <2>2, <2>3, <2>4 DEF ThreadStep
  <1>2. UNCHANGED process
    BY DEF ThreadStep, Enter, Effect, Submit, Follow
  <1>3. Single' <=> Single
    BY <1>1, <1>2, Limits DEF Single, OthersWait
  <1>4. ASSUME NEW fd \in Fds, NEW p \in Threads, Follows(p, fd)'
        PROVE  Follows(p, fd) \/ p = process[t]
    <2>1. CASE Follow(t)
      <3>1. UpdateWatchFds(process[t], thread[t])
        BY <2>1 DEF Follow
      <3>2. \A key : Insert(key) => followed' \subseteq followed \cup {key}
        BY DEF Insert
      <3>3. \A key : Remove(key) => followed' \subseteq followed
        BY DEF Remove
      <3>4. \/ followed' \subseteq followed
            \/ followed' \subseteq followed \cup {<<process[t], thread[t].to>>}
        BY <3>1, <3>2, <3>3 DEF UpdateWatchFds
      <3> QED
        BY <3>4, <1>4 DEF Follows
    <2>2. CASE UNCHANGED followed
      BY <1>4, <2>2 DEF Follows
    <2> QED
      BY <2>1, <2>2 DEF ThreadStep, Enter, Effect, Submit
  <1> QED
    BY <1>1, <1>2, <1>3, <1>4

MirrorAll == SingleInv /\ RecordsInv /\ MirrorInv

LEMMA StepKeepsSingle ==
  ASSUME TypeInv, SingleInv, NEW t \in Threads, ThreadStep(t)
  PROVE  SingleInv' /\ (Single => Apart(t))
  <1>1. thread[t].pc # "absent" /\ UNCHANGED process /\ (Single' <=> Single)
        /\ \A fd \in Fds, p \in Threads : Follows(p, fd)' => Follows(p, fd) \/ p = process[t]
    BY StepSingle
  <1>2. ASSUME process'[Other] = Main, NEW fd \in Fds PROVE ~Follows(Other, fd)'
    <2>1. process[t] = Main
      BY <1>1, <1>2 DEF TypeInv, ProcessInv, Threads
    <2> QED
      BY <1>1, <1>2, <2>1, Limits DEF SingleInv
  <1>3. ASSUME Single PROVE Apart(t) /\ CallInv(t)'
    <2>1. process[t] = t /\ CallInv(t)
      BY <1>1, <1>3, Own DEF SingleInv
    <2> QED
      BY <1>3, <2>1, EnterOwn, EffectOwn, SubmitOwn, FollowOwn DEF ThreadStep, OwnStep
  <1>4. ASSUME Single, NEW p \in Threads PROVE CallInv(p)'
    <2>1. CASE p = t
      BY <2>1, <1>3, <1>4
    <2>2. CASE p # t
      BY <2>2, <1>3, <1>4, ApartCalls DEF SingleInv, TypeInv
    <2> QED
      BY <2>1, <2>2
  <1> QED
    BY <1>1, <1>2, <1>3, <1>4 DEF SingleInv

\* A step that submits no record.
LEMMA StepKeepsMirror ==
  ASSUME TypeInv, FollowInv, MirrorAll, NEW t \in Threads, Enter(t) \/ Effect(t) \/ Follow(t),
         causes \subseteq causes'
  PROVE  RecordsInv' /\ MirrorInv'
  <1>1. ThreadStep(t) /\ UNCHANGED <<process, ring, cache>>
    BY DEF ThreadStep, Enter, Effect, Follow, cache
  <1>2. thread[t].pc # "absent" /\ (Single' <=> Single) /\ (Single => Apart(t))
    BY <1>1, StepSingle, StepKeepsSingle DEF MirrorAll
  <1>3. RecordsInv'
    BY <1>1, <1>2 DEF MirrorAll, RecordsInv, Before
  <1>4. ASSUME NEW mode \in Modes, Fine(mode)' PROVE Mirrors(mode)'
    <2>1. Mirrors(mode)
      BY <1>4 DEF MirrorAll, MirrorInv, Fine
    <2>2. mode = "shows" => Followings
      BY <1>4 DEF Fine, FollowInv, Clean, Followings
    <2>3. ASSUME Single, NEW p \in Threads, NEW V \in Tables, End(mode, p, V) PROVE End(mode, p, V)'
      <3>1. CASE p # t
        BY <1>2, <2>3, <3>1, ApartEnds
      <3>2. CASE p = t
        <4>1. process[t] = t /\ CallInv(t)
          BY <1>2, <2>3, Own DEF MirrorAll, SingleInv
        <4>2. CASE Effect(t)
          BY <1>4, <2>2, <2>3, <3>2, <4>1, <4>2, EffectOwn DEF OwnStep
        <4>3. CASE Enter(t) \/ Follow(t)
          BY <1>4, <2>3, <3>2, <4>1, <4>3, EnterOwn, FollowOwn
        <4> QED
          BY <4>2, <4>3
      <3> QED
        BY <3>1, <3>2
    <2> QED
      BY <1>1, <1>2, <2>1, <2>3, MirrorsKept
  <1> QED
    BY <1>3, <1>4 DEF MirrorInv

LEMMA BeforeGrows ==
  ASSUME RingInv, NEW r, Submitted(r), Single' => Single, NEW n \in Nat, n = Len(ring)
  PROVE  /\ \A k \in DOMAIN ring : Before(k)' => Before(k)
         /\ \A i \in DOMAIN ring' : i \in DOMAIN ring \/ i = n + 1
         /\ DOMAIN ring = 1 .. n /\ n + 1 \in DOMAIN ring' /\ ring'[n + 1] = r
         /\ ~Single' /\ (\E i \in DOMAIN ring' : ring'[i].kind = "fork") => ~Before(n + 1)'
  <1>1. DOMAIN ring = 1 .. n /\ DOMAIN ring' = 1 .. (n + 1) /\ ring'[n + 1] = r
        /\ \A i \in DOMAIN ring : i \in DOMAIN ring' /\ ring'[i] = ring[i]
    BY RingType DEF Submitted
  <1>2. ASSUME NEW k \in DOMAIN ring, Before(k)' PROVE Before(k)
    <2>1. \A j \in 1 .. k : j \in DOMAIN ring
      BY <1>1
    <2>2. Single' \/ \A j \in 1 .. k : ring'[j].kind # "fork"
      BY <1>2 DEF Before
    <2> QED
      BY <1>1, <2>1, <2>2 DEF Before
  <1>3. ASSUME ~Single', NEW i \in DOMAIN ring', ring'[i].kind = "fork" PROVE ~Before(n + 1)'
    BY <1>1, <1>3 DEF Before
  <1>4. \A i \in DOMAIN ring' : i \in DOMAIN ring \/ i = n + 1
    BY <1>1
  <1> QED
    BY <1>1, <1>2, <1>3, <1>4

LEMMA SubmitKeepsMirror ==
  ASSUME TypeInv, RingInv', MirrorAll, NEW t \in Threads, Submit(t)
  PROVE  RecordsInv' /\ MirrorInv'
  <1>1. ThreadStep(t) /\ UNCHANGED <<process, cache>>
    BY DEF ThreadStep, Submit, cache
  <1>2. thread[t].pc # "absent" /\ (Single' <=> Single) /\ (Single => Apart(t))
    BY <1>1, StepSingle, StepKeepsSingle DEF MirrorAll
  <1>3. PICK r \in Record : r = RecordOf(t) /\ Named(r, TRUE) /\ Output(r) /\ r.kind \in Kinds /\ r.thread = t
    BY SubmitStep DEF RecordOf
  <1>4. PICK n \in Nat : n = Len(ring)
    BY RingType DEF TypeInv
  <1>5. CASE causes' = causes \cup {"lost"}
    BY <1>5 DEF RecordsInv, MirrorInv, Fine
  <1>6. CASE Submitted(r) /\ UNCHANGED causes
    <2>1. /\ \A k \in DOMAIN ring : Before(k)' => Before(k)
          /\ \A i \in DOMAIN ring' : i \in DOMAIN ring \/ i = n + 1
          /\ DOMAIN ring = 1 .. n /\ n + 1 \in DOMAIN ring' /\ ring'[n + 1] = r
          /\ ~Single' /\ (\E i \in DOMAIN ring' : ring'[i].kind = "fork") => ~Before(n + 1)'
      BY <1>2, <1>4, <1>6, BeforeGrows DEF TypeInv
    <2>2. \A i \in DOMAIN ring : i \in DOMAIN ring' /\ ring'[i] = ring[i]
      BY <1>6 DEF Submitted
    <2>3. ASSUME Single
          PROVE  /\ process[t] = t /\ CallInv(t)
                 /\ \A mode \in Modes :
                      /\ End(mode, t, r.table)'
                      /\ \A V : End(mode, t, V) => Right(mode, r, V) /\ End(mode, t, After(r, V))'
      <3>1. process[t] = t /\ CallInv(t)
        BY <1>2, <2>3, Own DEF MirrorAll, SingleInv
      <3> QED
        BY <1>3, <3>1, SubmitOwn
    <2>4. ASSUME Single
          PROVE  /\ t = Other => process[Other] = Other
                 /\ r.kind = "open" => r.path \in Paths /\ r.table[r.to] = r.path
      <3>1. process[t] = t /\ CallInv(t) /\ thread[t].pc = "submit"
        BY <2>3, <2>4 DEF Submit
      <3>2. r.kind = thread[t].kind /\ r.to = thread[t].to /\ r.path = thread[t].path
            /\ r.table = thread[t].table
        BY <1>3 DEF RecordOf
      <3> QED
        BY <3>1, <3>2 DEF CallInv
    <2>5. ASSUME causes \cap {"lost", "split"} = {}
          PROVE  /\ ~Single' => (\E i \in DOMAIN ring' : ring'[i].kind = "fork") /\ ~Before(n + 1)'
                 /\ \A i \in DOMAIN ring : Before(i) =>
                      /\ ring[i].thread = Other => process[Other] = Other
                      /\ ring[i].kind = "open" =>
                           ring[i].path \in Paths /\ ring[i].table[ring[i].to] = ring[i].path
      <3>1. /\ ~Single => \E i \in DOMAIN ring : ring[i].kind = "fork"
            /\ \A i \in DOMAIN ring : Before(i) =>
                 /\ ring[i].thread = Other => process[Other] = Other
                 /\ ring[i].kind = "open" =>
                      ring[i].path \in Paths /\ ring[i].table[ring[i].to] = ring[i].path
        BY <2>5 DEF MirrorAll, RecordsInv
      <3>2. ASSUME ~Single' PROVE \E i \in DOMAIN ring' : ring'[i].kind = "fork"
        BY <1>2, <2>2, <3>1, <3>2
      <3> QED
        BY <2>1, <3>1, <3>2
    <2>6. RecordsInv'
      <3> SUFFICES ASSUME causes \cap {"lost", "split"} = {}
                   PROVE  /\ ~Single' => \E i \in DOMAIN ring' : ring'[i].kind = "fork"
                          /\ \A i \in DOMAIN ring' : Before(i)' =>
                               /\ ring'[i].thread = Other => process[Other] = Other
                               /\ ring'[i].kind = "open" =>
                                    ring'[i].path \in Paths /\ ring'[i].table[ring'[i].to] = ring'[i].path
        BY <1>1, <1>6 DEF RecordsInv
      <3>1. ASSUME NEW i \in DOMAIN ring', Before(i)'
            PROVE  /\ ring'[i].thread = Other => process[Other] = Other
                   /\ ring'[i].kind = "open" =>
                        ring'[i].path \in Paths /\ ring'[i].table[ring'[i].to] = ring'[i].path
        <4>1. CASE i \in DOMAIN ring
          BY <2>1, <2>2, <2>5, <3>1, <4>1
        <4>2. CASE i = n + 1
          <5>1. Single
            BY <1>2, <2>5, <3>1, <4>2
          <5> QED
            BY <1>3, <2>1, <2>4, <4>2, <5>1
        <4> QED
          BY <2>1, <4>1, <4>2
      <3> QED
        BY <2>5, <3>1
    <2>7. ASSUME NEW mode \in Modes, Fine(mode)' PROVE Mirrors(mode)'
      <3>1. Fine(mode) /\ causes \cap {"lost", "split"} = {}
        BY <1>6, <2>7 DEF Fine
      <3>2. Mirrors(mode)
        BY <3>1 DEF MirrorAll, MirrorInv
      <3>3. ASSUME Single, NEW p \in Threads, NEW V \in Tables, End(mode, p, V)
            PROVE  (r.thread = p => Right(mode, r, V)) /\ End(mode, p, Result(p, r, V))'
        <4>1. CASE p = t
          <5>1. Right(mode, r, V) /\ End(mode, t, After(r, V))' /\ Result(p, r, V) = After(r, V)
            BY <1>3, <2>3, <3>3, <4>1 DEF Result
          <5>2. PICK W : W = After(r, V)
            OBVIOUS
          <5> QED
            BY <4>1, <5>1, <5>2 DEF End
        <4>2. CASE p # t
          <5>1. Result(p, r, V) = V /\ r.thread # p
            BY <1>3, <4>2 DEF Result
          <5>2. End(mode, p, V)'
            BY <1>2, <3>3, <4>2, ApartEnds
          <5> QED
            BY <5>1, <5>2 DEF End
        <4> QED
          BY <4>1, <4>2
      <3>4. ASSUME Single PROVE r.table \in Tables /\ End(mode, r.thread, r.table)'
        <4>1. r.table \in Tables
          BY DEF Record, Tables
        <4>2. End(mode, t, r.table)'
          BY <2>3, <3>4
        <4> QED
          BY <1>3, <4>1, <4>2 DEF End
      <3>5. ~Single' => ~Before(n + 1)'
        BY <2>5, <3>1
      <3>6. r.kind # "fork"
        BY <1>3 DEF Kinds
      <3> QED
        BY <1>1, <1>2, <1>4, <1>6, <3>2, <3>3, <3>4, <3>5, <3>6, MirrorsGrow
    <2> QED
      BY <2>6, <2>7 DEF MirrorInv
  <1> QED
    BY <1>3, <1>5, <1>6, OutputRing DEF TypeInv

-----------------------------------------------------------------------------
(* The clone.                                                               *)

\* A clone leaves the descriptors and the call of the first thread alone, and says nothing of
\* those of a new process.
LEMMA CloneEnds ==
  ASSUME TypeInv, SingleInv, Clone
  PROVE  /\ Single /\ thread[Other].pc = "absent" /\ process[Other] = Main /\ UNCHANGED cache
         /\ process'[Other] = Main \/ process'[Other] = Other
         /\ Single' <=> process'[Other] = Other
         /\ SingleInv'
         /\ Single' => \A mode, V : End(mode, Other, V)'
         /\ \A mode, V : End(mode, Main, V) => End(mode, Main, V)'
  <1>1. /\ thread[Other].pc = "absent" /\ process[Other] = Main
        /\ thread' = [thread EXCEPT ![Other] = Idle] /\ Settled(Idle)
        /\ \/ process' = process /\ UNCHANGED files
           \/ /\ process' = [process EXCEPT ![Other] = Other]
              /\ files' = [files EXCEPT ![Other] = files[Main]]
        /\ UNCHANGED <<followed, shown, cache>>
    BY CloneStep
  <1>2. thread'[Other] = Idle /\ thread'[Main] = thread[Main]
    <2>1. thread' = [thread EXCEPT ![Other] = Idle] /\ Settled(Idle) /\ ThreadInv
      BY <1>1 DEF TypeInv
    <2>2. thread'[Other] = Idle /\ \A u \in Threads \ {Other} : thread'[u] = thread[u]
      BY <2>1, ThreadSet, Limits
    <2> QED
      BY <2>2, Limits
  <1>3. thread'[Other].pc = "user"
    BY <1>2, IdleType
  <1>4. process'[Other] = Main \/ process'[Other] = Other
    BY <1>1, Limits DEF TypeInv, ProcessInv
  <1>5. Single /\ (Single' <=> process'[Other] = Other)
    BY <1>1, <1>3 DEF Single
  <1>6. files'[Main] = files[Main] /\ (Leaving(Main)' <=> Leaving(Main))
    BY <1>1, <1>2, Limits DEF TypeInv, Leaving
  <1>7. \A fd \in Fds : <<Other, fd>> \notin followed' /\ <<Other, fd>> \notin shown'
    BY <1>1 DEF SingleInv, Follows, TypeInv, ProcessInv
  <1>8. CallInv(Other)' /\ \A mode, V : End(mode, Other, V)'
    BY <1>3, <1>7, NewEnds
  <1>9. ASSUME NEW mode, NEW V, End(mode, Main, V) PROVE End(mode, Main, V)'
    <2>1. \A fd \in Fds : Trusted(mode, Main, fd)' <=> Trusted(mode, Main, fd)
      BY <1>1, <1>2, <1>6 DEF Trusted, Wanted, Follows
    <2> QED
      BY <1>2, <1>6, <1>9, <2>1 DEF End
  <1>10. SingleInv'
    <2>1. CallInv(Main)
      BY <1>5, Limits DEF SingleInv
    <2>2. CallInv(Main)'
      BY <1>1, <1>2, <1>6, <2>1 DEF CallInv, Follows
    <2>3. \A p \in Threads : p = Main \/ p = Other
      BY DEF Threads
    <2>4. \A fd \in Fds : ~Follows(Other, fd)'
      BY <1>7 DEF Follows
    <2>5. \A p \in Threads : CallInv(p)'
      <3> TAKE p \in Threads
      <3>1. CASE p = Main
        BY <2>2, <3>1
      <3>2. CASE p = Other
        BY <1>8, <3>2
      <3> QED
        BY <2>3, <3>1, <3>2
    <2> QED
      BY <2>4, <2>5 DEF SingleInv
  <1> QED
    BY <1>1, <1>4, <1>5, <1>8, <1>9, <1>10

LEMMA CloneKeepsMirror ==
  ASSUME TypeInv, RingInv', MirrorAll, Clone
  PROVE  MirrorAll'
  <1>1. /\ Single /\ thread[Other].pc = "absent" /\ process[Other] = Main /\ UNCHANGED cache
        /\ process'[Other] = Main \/ process'[Other] = Other
        /\ Single' <=> process'[Other] = Other
        /\ SingleInv'
        /\ Single' => \A mode, V : End(mode, Other, V)'
        /\ \A mode, V : End(mode, Main, V) => End(mode, Main, V)'
    BY CloneEnds DEF MirrorAll
  <1>2. PICK r \in Record : r = ForkRecord /\ Named(r, TRUE) /\ Output(r)
    BY CloneStep
  <1>3. r.kind = "fork" /\ r.thread = Main
    BY <1>2 DEF ForkRecord
  <1>4. PICK n \in Nat : n = Len(ring)
    BY RingType DEF TypeInv
  <1>5. CASE causes' = causes \cup {"lost"}
    <2>1. RecordsInv' /\ MirrorInv'
      BY <1>5 DEF RecordsInv, MirrorInv, Fine
    <2> QED
      BY <1>1, <2>1 DEF MirrorAll
  <1>6. CASE Submitted(r) /\ UNCHANGED causes
    <2>1. /\ \A k \in DOMAIN ring : Before(k)' => Before(k)
          /\ \A i \in DOMAIN ring' : i \in DOMAIN ring \/ i = n + 1
          /\ DOMAIN ring = 1 .. n /\ n + 1 \in DOMAIN ring' /\ ring'[n + 1] = r
          /\ ~Single' /\ (\E i \in DOMAIN ring' : ring'[i].kind = "fork") => ~Before(n + 1)'
      BY <1>1, <1>4, <1>6, BeforeGrows DEF TypeInv
    <2>2. \A i \in DOMAIN ring : i \in DOMAIN ring' /\ ring'[i] = ring[i]
      BY <1>6 DEF Submitted
    <2>3. ~Single' => ~Before(n + 1)'
      BY <1>3, <2>1
    <2>4. RecordsInv'
      <3> SUFFICES ASSUME causes \cap {"lost", "split"} = {}
                   PROVE  /\ ~Single' => \E i \in DOMAIN ring' : ring'[i].kind = "fork"
                          /\ \A i \in DOMAIN ring' : Before(i)' =>
                               /\ ring'[i].thread = Other => process'[Other] = Other
                               /\ ring'[i].kind = "open" =>
                                    ring'[i].path \in Paths /\ ring'[i].table[ring'[i].to] = ring'[i].path
        BY <1>6 DEF RecordsInv
      <3>1. \A i \in DOMAIN ring :
              /\ ring[i].thread # Other
              /\ ring[i].kind = "open" =>
                   ring[i].path \in Paths /\ ring[i].table[ring[i].to] = ring[i].path
        BY <1>1, Limits DEF MirrorAll, RecordsInv, Before
      <3>2. \A i \in DOMAIN ring' :
              /\ ring'[i].thread # Other
              /\ ring'[i].kind = "open" =>
                   ring'[i].path \in Paths /\ ring'[i].table[ring'[i].to] = ring'[i].path
        BY <1>3, <2>1, <2>2, <3>1, Limits
      <3> QED
        BY <1>3, <2>1, <3>2
    <2>5. ASSUME NEW mode \in Modes, Fine(mode)' PROVE Mirrors(mode)'
      <3>1. Mirrors(mode)
        BY <1>6, <2>5 DEF Fine, MirrorAll, MirrorInv
      <3>2. Other \notin known
        BY <1>1, <3>1, Limits DEF Mirrors
      <3>3. ASSUME Single', NEW p \in Threads, NEW V \in Tables, End(mode, p, V)
            PROVE  (r.thread = p => Right(mode, r, V)) /\ End(mode, p, Result(p, r, V))'
        <4>1. Result(p, r, V) = V /\ Right(mode, r, V)
          BY <1>3 DEF Result, After, Right, Checked
        <4>2. End(mode, p, V)'
          <5>1. CASE p = Main
            BY <1>1, <3>3, <5>1
          <5>2. CASE p = Other
            BY <1>1, <3>3, <5>2
          <5> QED
            BY <5>1, <5>2 DEF Threads
        <4> QED
          BY <4>1, <4>2 DEF End
      <3>4. Single' => \A V \in Tables : End(mode, Other, V)'
        BY <1>1
      <3> QED
        BY <1>1, <1>3, <1>4, <1>6, <2>3, <3>1, <3>2, <3>3, <3>4, MirrorsGrow
    <2>6. MirrorInv'
      BY <2>5 DEF MirrorInv
    <2> QED
      BY <1>1, <2>4, <2>6 DEF MirrorAll
  <1> QED
    BY <1>2, <1>5, <1>6, OutputRing DEF TypeInv

-----------------------------------------------------------------------------
(* What the collector makes of a record.                                    *)

\* A cache that says of the other threads what it said before, and takes p for a process.
Steady(s, p) ==
  /\ s \in CacheState
  /\ \A q \in Threads \ {p} :
       (q \in s.known <=> q \in known) /\ s.owner[q] = owner[q] /\ s.cached[q] = cached[q]
  /\ p \in s.known => s.owner[p] = p

LEMMA NowSteady ==
  ASSUME TypeInv, NEW p \in Threads, p \in known => owner[p] = p
  PROVE  /\ Steady(Now, p) /\ Now.read = FALSE
         /\ Now.known = known /\ Now.owner = owner /\ Now.cached = cached
  <1>1. Now.known = known /\ Now.owner = owner /\ Now.cached = cached /\ Now.read = FALSE
    BY DEF Now
  <1> QED
    BY <1>1, NowType DEF Steady

\* The thread's table was read from /proc, or nothing was done.
Attempted(d, s, p) ==
  /\ Steady(d, p)
  /\ d = s \/ (d.read = TRUE /\ p \in d.known /\ d.cached[p] = files[p])

LEMMA AttemptSteady ==
  ASSUME TypeInv, NEW p \in Threads, process[p] = p, NEW s, Steady(s, p)
  PROVE  Attempted(Attempt(s, p), s, p)
  <1> DEFINE d == Attempt(s, p)
  <1>1. s \in CacheState /\ d \in CacheState /\ s.owner \in [Threads -> Threads]
        /\ s.cached \in [Threads -> [Fds -> Targets]]
    BY AttemptType DEF Steady, CacheState
  <1>2. CASE readable
    <2> DEFINE e == InsertContext(s, p, p, files[p])
    <2>1. e = [s EXCEPT !.known = s.known \cup {p}, !.owner = [s.owner EXCEPT ![p] = p],
                        !.cached = [s.cached EXCEPT ![p] = files[p]]]
      BY DEF InsertContext
    <2>2. /\ e.known = s.known \cup {p} /\ e.owner = [s.owner EXCEPT ![p] = p]
          /\ e.cached = [s.cached EXCEPT ![p] = files[p]]
      BY <1>1, <2>1 DEF CacheState
    <2>3. d = [e EXCEPT !.read = TRUE]
      BY <1>2 DEF Attempt
    <2>4. files[p] \in [Fds -> Targets]
      BY DEF TypeInv
    <2>5. e \in CacheState
      BY <1>1, <2>4, InsertContextType
    <2> HIDE DEF e
    <2>6. d.known = e.known /\ d.owner = e.owner /\ d.cached = e.cached /\ d.read = TRUE
      BY <2>3, <2>5 DEF CacheState
    <2>7. d.owner[p] = p /\ d.cached[p] = files[p] /\ p \in d.known
      BY <1>1, <2>2, <2>6
    <2>8. \A q \in Threads \ {p} :
            (q \in d.known <=> q \in s.known) /\ d.owner[q] = s.owner[q] /\ d.cached[q] = s.cached[q]
      BY <1>1, <2>2, <2>6
    <2> QED
      BY <1>1, <1>2, <2>6, <2>7, <2>8 DEF Steady, Attempted
  <1>3. CASE ~readable
    BY <1>3 DEF Attempt, Attempted
  <1> QED
    BY <1>2, <1>3

LEMMA PutSteady ==
  ASSUME NEW p \in Threads, NEW s, Steady(s, p), NEW fd \in Fds, NEW path \in Targets,
         NEW d, d = Put(s, p, fd, path)
  PROVE  /\ Steady(d, p) /\ d.read = s.read
         /\ p \notin s.known => d = s
         /\ p \in s.known => p \in d.known /\ d.cached[p] = [s.cached[p] EXCEPT ![fd] = path]
  <1>1. s \in CacheState /\ d \in CacheState /\ s.cached \in [Threads -> [Fds -> Targets]]
    BY PutType DEF Steady, CacheState
  <1>2. CASE p \in s.known
    <2>1. PICK table \in [Fds -> Targets] : table = [s.cached[p] EXCEPT ![fd] = path]
      BY <1>1
    <2>2. s.owner[p] = p
      BY <1>2 DEF Steady
    <2>3. d = [s EXCEPT !.cached = [s.cached EXCEPT ![p] = table]]
      BY <1>2, <2>1, <2>2 DEF Put
    <2>4. d.known = s.known /\ d.owner = s.owner /\ d.read = s.read
          /\ d.cached = [s.cached EXCEPT ![p] = table]
      BY <1>1, <2>3 DEF CacheState
    <2>5. d.cached[p] = table /\ \A q \in Threads \ {p} : d.cached[q] = s.cached[q]
      BY <1>1, <2>4
    <2> QED
      BY <1>1, <1>2, <2>1, <2>4, <2>5 DEF Steady
  <1>3. CASE p \notin s.known
    BY <1>3 DEF Put
  <1> QED
    BY <1>2, <1>3

\* apply_syscall_cache_updates does to the table of a known thread what After says.
Updated(d, s, r, p) ==
  /\ Steady(d, p) /\ d.read = s.read
  /\ p \notin s.known => d = s
  /\ p \in s.known => p \in d.known /\ d.cached[p] = After(r, s.cached[p])

LEMMA CacheAfterSteady ==
  ASSUME NEW r \in Record, Named(r, TRUE), NEW p \in Threads, r.thread = p,
         NEW s, Steady(s, p), NEW said,
         r.kind = "open" => r.path \in Paths /\ (said = r.path \/ (said = "gap" /\ p \notin s.known))
  PROVE  Updated(CacheAfter(s, r, said), s, r, p)
  <1> PICK d : d = CacheAfter(s, r, said)
    OBVIOUS
  <1> SUFFICES Updated(d, s, r, p)
    OBVIOUS
  <1>1. s \in CacheState /\ s.cached[p] \in [Fds -> Targets]
    BY DEF Steady, CacheState
  <1>2. CASE r.kind = "open"
    <2>1. r.path \in Paths /\ r.path # "gap" /\ r.to \in Fds /\ r.path \in Targets
      BY <1>2, FdAssumption DEF Named, Targets
    <2>2. CASE said = r.path
      <3>1. d = Put(s, p, r.to, r.path)
        BY <1>2, <2>1, <2>2 DEF CacheAfter
      <3>2. /\ Steady(d, p) /\ d.read = s.read
            /\ p \notin s.known => d = s
            /\ p \in s.known => p \in d.known /\ d.cached[p] = [s.cached[p] EXCEPT ![r.to] = r.path]
        BY <2>1, <3>1, PutSteady
      <3>3. After(r, s.cached[p]) = [s.cached[p] EXCEPT ![r.to] = r.path]
        BY <1>2 DEF After
      <3> QED
        BY <3>2, <3>3 DEF Updated
    <2>3. CASE said = "gap" /\ p \notin s.known
      <3>1. d = s
        BY <1>2, <2>3 DEF CacheAfter
      <3> QED
        BY <2>3, <3>1 DEF Updated
    <2> QED
      BY <1>2, <2>2, <2>3
  <1>3. CASE r.kind = "close"
    <2>1. r.fd \in Fds /\ NoPath \in Targets /\ d = Put(s, p, r.fd, NoPath)
      BY <1>3, Limits DEF Named, CacheAfter, CloseFd
    <2>2. /\ Steady(d, p) /\ d.read = s.read
          /\ p \notin s.known => d = s
          /\ p \in s.known => p \in d.known /\ d.cached[p] = [s.cached[p] EXCEPT ![r.fd] = NoPath]
      BY <2>1, PutSteady
    <2>3. After(r, s.cached[p]) = [s.cached[p] EXCEPT ![r.fd] = NoPath]
      BY <1>3 DEF After
    <2> QED
      BY <2>2, <2>3 DEF Updated
  <1>4. CASE r.kind \in {"dup", "dup2"}
    <2>1. r.fd \in Fds /\ r.to \in Fds
      BY <1>4 DEF Named
    <2>2. PICK path \in Targets : path = Lookup(s, p, r.fd)
      BY <1>1, <2>1, LookupType
    <2>3. d = IF path = NoPath THEN s ELSE Put(s, p, r.to, path)
      BY <1>4, <2>2 DEF CacheAfter, DuplicateFd
    <2>4. p \notin s.known => path = NoPath
      BY <2>2 DEF Lookup
    <2>5. p \in s.known => path = s.cached[p][r.fd]
      BY <2>2 DEF Lookup, Steady
    <2>6. CASE path = NoPath
      <3>1. p \in s.known => After(r, s.cached[p]) = s.cached[p]
        BY <1>4, <2>5, <2>6 DEF After
      <3> QED
        BY <2>3, <2>6, <3>1 DEF Updated
    <2>7. CASE path # NoPath
      <3>1. /\ Steady(d, p) /\ d.read = s.read
            /\ p \notin s.known => d = s
            /\ p \in s.known => p \in d.known /\ d.cached[p] = [s.cached[p] EXCEPT ![r.to] = path]
        BY <2>1, <2>3, <2>7, PutSteady
      <3>2. p \in s.known => After(r, s.cached[p]) = [s.cached[p] EXCEPT ![r.to] = path]
        BY <1>4, <2>5, <2>7 DEF After
      <3> QED
        BY <3>1, <3>2 DEF Updated
    <2> QED
      BY <2>6, <2>7
  <1>5. CASE r.kind \notin {"open", "close", "dup", "dup2"}
    <2>1. d = s /\ After(r, s.cached[p]) = s.cached[p]
      BY <1>5 DEF CacheAfter, After
    <2> QED
      BY <2>1 DEF Updated
  <1> QED
    BY <1>2, <1>3, <1>4, <1>5

\* resolve_syscall_paths leaves the cache as it is or has read the thread's table anew.
Looked(z, r, p) ==
  /\ Steady(z.cache, p)
  /\ \/ z.cache = Now
     \/ /\ z.cache.read = TRUE /\ r.kind \in {"open", "use"}
        /\ p \in z.cache.known /\ z.cache.cached[p] = files[p]
  /\ r.kind = "open" => z.said = r.path \/ (z.said = "gap" /\ p \notin z.cache.known)
  /\ r.kind = "use" =>
       z.said = "gap" \/ (p \in z.cache.known /\ z.said = z.cache.cached[p][r.fd])

LEMMA ResolveSteady ==
  ASSUME TypeInv, NEW r \in Record, NEW p \in Threads, r.thread = p, process[p] = p,
         p \in known => owner[p] = p
  PROVE  Looked(ResolveSyscallPaths(r), r, p)
  <1> PICK z : z = ResolveSyscallPaths(r)
    OBVIOUS
  <1> SUFFICES Looked(z, r, p)
    OBVIOUS
  <1>1. \A said, s : Resolved(said, s).cache = s /\ Resolved(said, s).said = said
    BY DEF Resolved
  <1>2. Steady(Now, p) /\ Now.known = known
    BY NowSteady
  <1>3. PICK d : d = Attempt(Now, p)
    OBVIOUS
  <1>4. Steady(d, p) /\ (d = Now \/ (d.read = TRUE /\ p \in d.known /\ d.cached[p] = files[p]))
    <2>1. Attempted(d, Now, p)
      BY <1>2, <1>3, AttemptSteady
    <2> QED
      BY <2>1 DEF Attempted
  <1>5. CASE r.kind = "use"
    <2>1. PICK s : s = IF Lookup(Now, p, r.fd) # NoPath THEN Now ELSE d
      OBVIOUS
    <2>2. Steady(s, p) /\ (s = Now \/ (s.read = TRUE /\ p \in s.known /\ s.cached[p] = files[p]))
      BY <1>2, <1>4, <2>1
    <2>3. PICK path : path = Lookup(s, p, r.fd)
      OBVIOUS
    <2>4. z = Resolved(IF path = NoPath THEN "gap" ELSE path, s)
      BY <1>3, <1>5, <2>1, <2>3 DEF ResolveSyscallPaths, ResolveFd
    <2>5. path # NoPath => p \in s.known /\ path = s.cached[p][r.fd]
      BY <2>2, <2>3 DEF Lookup, Steady
    <2>6. z.cache = s /\ (z.said = "gap" \/ (p \in s.known /\ z.said = s.cached[p][r.fd]))
      BY <1>1, <2>4, <2>5
    <2> QED
      BY <1>5, <2>2, <2>6 DEF Looked
  <1>6. CASE r.kind = "open"
    <2>1. PICK s : s = IF r.form = "full" \/ p \in known THEN Now ELSE d
      OBVIOUS
    <2>2. Steady(s, p) /\ (s = Now \/ (s.read = TRUE /\ p \in s.known /\ s.cached[p] = files[p]))
      BY <1>2, <1>4, <2>1
    <2>3. z = Resolved(IF r.form = "full" \/ p \in s.known THEN r.path ELSE "gap", s)
      BY <1>3, <1>6, <2>1 DEF ResolveSyscallPaths, ResolvePath
    <2>4. z.cache = s /\ (z.said = r.path \/ (z.said = "gap" /\ p \notin s.known))
      BY <1>1, <2>3
    <2> QED
      BY <1>6, <2>2, <2>4 DEF Looked
  <1>7. CASE r.kind \notin {"open", "use"}
    <2>1. z.cache = Now
      BY <1>1, <1>7 DEF ResolveSyscallPaths
    <2> QED
      BY <1>2, <1>7, <2>1 DEF Looked
  <1> QED
    BY <1>5, <1>6, <1>7

\* Unless /proc showed too much, the thread's table is now the one its record was submitted
\* with, or the one before it taken through this record.
LEMMA ConsumeResult ==
  ASSUME TypeInv, ConsumeSyscall, "behind" \notin causes',
         NEW r \in Record, r = ring[1], NEW p \in Threads, p = r.thread, process[p] = p,
         p \in known => owner[p] = p,
         r.kind = "open" => r.path \in Paths /\ r.table[r.to] = r.path
  PROVE  /\ \A q \in Threads \ {p} :
              (q \in known' <=> q \in known) /\ owner'[q] = owner[q] /\ cached'[q] = cached[q]
         /\ p \in known' =>
              /\ owner'[p] = p
              /\ cached'[p] = r.table \/ (p \in known /\ cached'[p] = After(r, cached[p]))
         /\ r.kind # "use" => verdict' = verdict
         /\ r.kind = "use" => \E said :
              /\ verdict' = Verdict(said, r.table[r.fd], r.shown)
              /\ \/ said \in {"gap", r.table[r.fd]}
                 \/ p \in known /\ said = cached[p][r.fd]
  <1>1. Head(ring) = r /\ Named(r, TRUE) /\ ring # << >> /\ r.thread = p
    BY HeadType DEF ConsumeSyscall
  <1>2. PICK z : z = ResolveSyscallPaths(r)
    OBVIOUS
  <1>3. PICK c : c = CacheAfter(z.cache, r, z.said)
    OBVIOUS
  <1>4. PICK d : d = Refreshed(c, p)
    OBVIOUS
  <1>5. /\ SetCache(d)
        /\ causes' = IF Behind(d, r) THEN causes \cup {"behind"} ELSE causes
        /\ verdict' = IF r.kind = "use" THEN Verdict(z.said, r.table[r.fd], r.shown) ELSE verdict
    BY <1>1, <1>2, <1>3, <1>4 DEF ConsumeSyscall
  <1>6. d.read => files[p] = r.table
    BY <1>5 DEF Behind
  <1>7. Now.known = known /\ Now.owner = owner /\ Now.cached = cached /\ Now.read = FALSE
    BY NowSteady
  <1>8. /\ Steady(z.cache, p)
        /\ \/ z.cache = Now
           \/ /\ z.cache.read = TRUE /\ r.kind \in {"open", "use"}
              /\ p \in z.cache.known /\ z.cache.cached[p] = files[p]
        /\ r.kind = "open" => z.said = r.path \/ (z.said = "gap" /\ p \notin z.cache.known)
        /\ r.kind = "use" =>
             z.said = "gap" \/ (p \in z.cache.known /\ z.said = z.cache.cached[p][r.fd])
    <2>1. Looked(z, r, p)
      BY <1>1, <1>2, ResolveSteady
    <2> QED
      BY <2>1 DEF Looked
  <1>9. /\ Steady(c, p) /\ c.read = z.cache.read
        /\ p \notin z.cache.known => c = z.cache
        /\ p \in z.cache.known => p \in c.known /\ c.cached[p] = After(r, z.cache.cached[p])
    <2>1. Updated(c, z.cache, r, p)
      BY <1>1, <1>3, <1>8, CacheAfterSteady
    <2> QED
      BY <2>1 DEF Updated
  <1>10. /\ Steady(d, p)
         /\ p \in c.known => d = c
         /\ p \notin c.known => d = c \/ (d.read = TRUE /\ d.cached[p] = files[p])
    <2>1. CASE p \in c.known
      BY <1>4, <1>9, <2>1 DEF Refreshed
    <2>2. CASE p \notin c.known
      <3>1. d = Attempt(c, p)
        BY <1>4, <2>2 DEF Refreshed
      <3>2. Attempted(d, c, p)
        BY <1>9, <3>1, AttemptSteady
      <3> QED
        BY <2>2, <3>2 DEF Attempted
    <2> QED
      BY <2>1, <2>2
  <1>11. ASSUME z.cache.read = TRUE, p \in z.cache.known, z.cache.cached[p] = files[p]
         PROVE  files[p] = r.table
    BY <1>6, <1>9, <1>10, <1>11
  <1>12. ASSUME r.kind \in {"open", "use"} PROVE After(r, r.table) = r.table
    <2>1. r.table \in [Fds -> Targets]
      BY DEF Record
    <2> QED
      BY <1>1, <1>12, <2>1 DEF After, Named
  <1>13. ASSUME p \in d.known
         PROVE  d.cached[p] = r.table \/ (p \in known /\ d.cached[p] = After(r, cached[p]))
    <2>1. CASE z.cache = Now /\ p \in known
      BY <1>7, <1>9, <1>10, <2>1
    <2>2. CASE z.cache = Now /\ p \notin known
      BY <1>6, <1>7, <1>9, <1>10, <1>13, <2>2
    <2>3. CASE /\ z.cache.read = TRUE /\ r.kind \in {"open", "use"}
               /\ p \in z.cache.known /\ z.cache.cached[p] = files[p]
      <3>1. files[p] = r.table
        BY <1>11, <2>3
      <3>2. p \in c.known /\ c.cached[p] = After(r, files[p]) /\ d = c
        BY <1>9, <1>10, <2>3
      <3> QED
        BY <1>12, <2>3, <3>1, <3>2
    <2> QED
      BY <1>8, <2>1, <2>2, <2>3
  <1>14. known' = d.known /\ owner' = d.owner /\ cached' = d.cached
    BY <1>5 DEF SetCache
  <1>15. ASSUME r.kind = "use"
         PROVE  z.said \in {"gap", r.table[r.fd]} \/ (p \in known /\ z.said = cached[p][r.fd])
    BY <1>7, <1>8, <1>11, <1>15
  <1> QED
    BY <1>5, <1>10, <1>13, <1>14, <1>15 DEF Steady

-----------------------------------------------------------------------------
(* The first record goes.                                                   *)

LEMMA BeforeShift ==
  ASSUME Before(1) \/ Single, UNCHANGED <<thread, process>>, NEW n \in Nat,
         \A i \in 1 .. n : ring'[i] = ring[i + 1], NEW k \in 1 .. n, Before(k)'
  PROVE  Before(k + 1)
  <1>1. Single' <=> Single
    BY DEF Single
  <1>2. CASE Single
    BY <1>2 DEF Before
  <1>3. CASE ~Single
    <2>1. \A j \in 1 .. k : ring'[j].kind # "fork"
      BY <1>1, <1>3 DEF Before
    <2>2. ring[1].kind # "fork"
      BY <1>3 DEF Before
    <2>3. ASSUME NEW j \in 1 .. (k + 1) PROVE ring[j].kind # "fork"
      <3>1. j = 1 \/ (j - 1 \in 1 .. k /\ j - 1 \in 1 .. n /\ (j - 1) + 1 = j)
        BY <2>3
      <3> QED
        BY <3>1, <2>1, <2>2
    <2> QED
      BY <2>3 DEF Before
  <1> QED
    BY <1>2, <1>3

LEMMA RecordsShift ==
  ASSUME RingInv, RingInv', Taken, UNCHANGED <<thread, process>>, causes \subseteq causes',
         RecordsInv, causes' \cap {"lost", "split"} = {} => Before(1) \/ Single
  PROVE  RecordsInv'
  <1>1. PICK n \in Nat :
          /\ DOMAIN ring = 1 .. (n + 1) /\ DOMAIN ring' = 1 .. n
          /\ \A k \in 1 .. n : ring'[k] = ring[k + 1]
    BY TakenDomain
  <1>2. Single' <=> Single
    BY DEF Single
  <1> SUFFICES ASSUME causes' \cap {"lost", "split"} = {}
               PROVE  /\ ~Single' => \E i \in DOMAIN ring' : ring'[i].kind = "fork"
                      /\ \A i \in DOMAIN ring' : Before(i)' =>
                           /\ ring'[i].thread = Other => process'[Other] = Other
                           /\ ring'[i].kind = "open" =>
                                ring'[i].path \in Paths /\ ring'[i].table[ring'[i].to] = ring'[i].path
    BY DEF RecordsInv
  <1>3. /\ ~Single => \E i \in DOMAIN ring : ring[i].kind = "fork"
        /\ \A i \in DOMAIN ring : Before(i) =>
             /\ ring[i].thread = Other => process[Other] = Other
             /\ ring[i].kind = "open" =>
                  ring[i].path \in Paths /\ ring[i].table[ring[i].to] = ring[i].path
    BY DEF RecordsInv
  <1>4. ASSUME ~Single PROVE \E i \in DOMAIN ring' : ring'[i].kind = "fork"
    <2>1. PICK i \in DOMAIN ring : ring[i].kind = "fork"
      BY <1>3, <1>4
    <2>2. i # 1
      BY <1>4, <2>1 DEF Before
    <2>3. PICK j \in 1 .. n : i = j + 1
      <3>1. i - 1 \in 1 .. n /\ i = (i - 1) + 1
        BY <1>1, <2>2
      <3> QED
        BY <3>1
    <2> QED
      BY <1>1, <2>1, <2>3
  <1>5. ASSUME NEW i \in DOMAIN ring', Before(i)'
        PROVE  /\ ring'[i].thread = Other => process[Other] = Other
               /\ ring'[i].kind = "open" =>
                    ring'[i].path \in Paths /\ ring'[i].table[ring'[i].to] = ring'[i].path
    <2>1. i \in 1 .. n /\ i + 1 \in DOMAIN ring /\ ring'[i] = ring[i + 1]
      BY <1>1
    <2>2. Before(i + 1)
      BY <1>1, <1>5, <2>1, BeforeShift
    <2> QED
      BY <1>3, <2>1, <2>2
  <1> QED
    BY <1>2, <1>4, <1>5

LEMMA MirrorsShift ==
  ASSUME TypeInv, RingInv', Taken, UNCHANGED <<thread, process, files, followed, shown>>,
         Before(1) \/ Single, NEW mode, Mirrors(mode),
         \A p \in known' : /\ owner'[p] = p /\ (p = Other => process'[Other] = Other)
                           /\ Fits(mode, cached'[p], p, 1)
  PROVE  Mirrors(mode)'
  <1>1. RingInv
    BY DEF TypeInv
  <1>2. ASSUME NEW T, NEW p, NEW i \in Nat, Fits(mode, T, p, i + 1) PROVE Fits(mode, T, p, i)'
    BY <1>1, <1>2, FitsShift
  <1>3. PICK n \in Nat :
          /\ DOMAIN ring = 1 .. (n + 1) /\ DOMAIN ring' = 1 .. n
          /\ \A k \in 1 .. n : ring'[k] = ring[k + 1]
    BY <1>1, TakenDomain
  <1>4. ASSUME NEW p \in known' PROVE Fits(mode, cached[p], p, 0)'
    <2>1. PICK T : T = cached'[p]
      OBVIOUS
    <2>2. Fits(mode, T, p, 0 + 1)
      BY <2>1
    <2>3. Fits(mode, T, p, 0)'
      BY <1>2, <2>2
    <2> QED
      BY <2>1, <2>3 DEF Fits
  <1>5. ASSUME NEW i \in DOMAIN ring' PROVE i \in 1 .. n /\ i \in Nat /\ i + 1 \in DOMAIN ring /\ ring'[i] = ring[i + 1]
    BY <1>3
  <1>6. ASSUME NEW i \in DOMAIN ring', ring'[i].kind # "fork", Before(i)'
        PROVE  Fits(mode, ring[i].table, ring[i].thread, i)'
    <2>1. PICK r : r = ring'[i]
      OBVIOUS
    <2>2. i + 1 \in DOMAIN ring /\ ring[i + 1] = r /\ i \in Nat /\ i \in 1 .. n
      BY <1>5, <2>1
    <2>3. Before(i + 1)
      BY <1>3, <1>6, <2>2, BeforeShift
    <2>4. Fits(mode, ring[i + 1].table, ring[i + 1].thread, i + 1)
      BY <1>6, <2>1, <2>2, <2>3 DEF Mirrors
    <2>5. PICK T, p : T = r.table /\ p = r.thread
      OBVIOUS
    <2>6. Fits(mode, T, p, i + 1)
      BY <2>2, <2>4, <2>5
    <2>7. Fits(mode, T, p, i)'
      BY <1>2, <2>2, <2>6
    <2> QED
      BY <2>1, <2>5, <2>7 DEF Fits
  <1>7. ASSUME NEW i \in DOMAIN ring', ring'[i].kind = "fork", Single', NEW V \in Tables
        PROVE  Fits(mode, V, Other, i)'
    <2>1. i + 1 \in DOMAIN ring /\ ring[i + 1].kind = "fork" /\ i \in Nat
      BY <1>5, <1>7
    <2>2. Single
      BY <1>7 DEF Single
    <2>3. Fits(mode, V, Other, i + 1)
      BY <2>1, <2>2 DEF Mirrors
    <2> QED
      BY <1>2, <2>1, <2>3
  <1> QED
    BY <1>4, <1>6, <1>7 DEF Mirrors

\* The kernel goes on as it was.
LEMMA KernelKeepsSingle ==
  ASSUME SingleInv, UNCHANGED <<thread, process, files, followed>>
  PROVE  SingleInv'
  <1>1. \A p : CallInv(p) => CallInv(p)'
    BY DEF CallInv, Follows, Leaving
  <1>2. Single' <=> Single
    BY DEF Single
  <1> QED
    BY <1>1, <1>2 DEF SingleInv, Follows

\* What is known of the record that is taken.
LEMMA HeadKnown ==
  ASSUME TypeInv, TypeInv', MirrorAll, ConsumeSyscall
  PROVE  \E r \in Record, p \in Threads :
           /\ r = ring[1] /\ p = r.thread /\ 1 \in DOMAIN ring /\ r.kind # "fork" /\ Taken /\ Before(1)
           /\ UNCHANGED <<thread, process, files, followed, shown>> /\ causes \subseteq causes'
           /\ causes' \cap {"lost", "split"} = {} =>
                /\ process[p] = p
                /\ r.kind = "open" => r.path \in Paths /\ r.table[r.to] = r.path
  <1>1. ring # << >> /\ ring' = Tail(ring) /\ Head(ring).kind # "fork" /\ UNCHANGED <<kernel, shown>>
        /\ causes \subseteq causes'
    BY DEF ConsumeSyscall
  <1>2. Head(ring) = ring[1] /\ 1 \in DOMAIN ring /\ Head(ring) \in Record
    BY <1>1, HeadType
  <1>3. PICK r \in Record : r = ring[1]
    BY <1>2
  <1>4. PICK p \in Threads : p = r.thread
    BY DEF Record
  <1>5. Taken
    BY <1>1, TakenRing DEF TypeInv
  <1>6. Before(1)
    <2>1. \A j \in 1 .. 1 : j = 1
      OBVIOUS
    <2> QED
      BY <1>1, <1>2, <2>1 DEF Before
  <1>7. ASSUME causes' \cap {"lost", "split"} = {}
        PROVE  /\ process[p] = p
               /\ r.kind = "open" => r.path \in Paths /\ r.table[r.to] = r.path
    <2>1. /\ r.thread = Other => process[Other] = Other
          /\ r.kind = "open" => r.path \in Paths /\ r.table[r.to] = r.path
      BY <1>1, <1>2, <1>3, <1>6, <1>7 DEF MirrorAll, RecordsInv
    <2>2. process[Main] = Main /\ (p = Main \/ p = Other)
      BY DEF TypeInv, ProcessInv, Threads
    <2> QED
      BY <1>4, <2>1, <2>2
  <1> QED
    BY <1>1, <1>2, <1>3, <1>4, <1>5, <1>6, <1>7 DEF kernel

LEMMA SyscallKeepsMirror ==
  ASSUME TypeInv, TypeInv', MirrorAll, ConsumeSyscall
  PROVE  MirrorAll'
  <1>1. PICK r \in Record, p \in Threads :
           /\ r = ring[1] /\ p = r.thread /\ 1 \in DOMAIN ring /\ r.kind # "fork" /\ Taken /\ Before(1)
           /\ UNCHANGED <<thread, process, files, followed, shown>> /\ causes \subseteq causes'
           /\ causes' \cap {"lost", "split"} = {} =>
                /\ process[p] = p
                /\ r.kind = "open" => r.path \in Paths /\ r.table[r.to] = r.path
    BY HeadKnown
  <1>2. RingInv /\ RingInv'
    BY DEF TypeInv
  <1>3. SingleInv' /\ RecordsInv'
    BY <1>1, <1>2, RecordsShift, KernelKeepsSingle DEF MirrorAll
  <1>4. ASSUME NEW mode \in Modes, Fine(mode)' PROVE Mirrors(mode)'
    <2>1. Fine(mode) /\ "behind" \notin causes' /\ causes' \cap {"lost", "split"} = {}
      BY <1>1, <1>4 DEF Fine, Modes
    <2>2. Mirrors(mode)
      BY <2>1 DEF MirrorAll, MirrorInv
    <2>3. process[p] = p /\ (p \in known => owner[p] = p)
      BY <1>1, <2>1, <2>2 DEF Mirrors
    <2>4. /\ \A q \in Threads \ {p} :
               (q \in known' <=> q \in known) /\ owner'[q] = owner[q] /\ cached'[q] = cached[q]
          /\ p \in known' =>
               /\ owner'[p] = p
               /\ cached'[p] = r.table \/ (p \in known /\ cached'[p] = After(r, cached[p]))
      BY <1>1, <2>1, <2>3, ConsumeResult
    <2>5. ASSUME NEW q \in known
          PROVE  owner[q] = q /\ (q = Other => process[Other] = Other)
                 /\ Fits(mode, Result(q, r, cached[q]), q, 1)
      <3>1. owner[q] = q /\ (q = Other => process[Other] = Other) /\ Fits(mode, cached[q], q, 0)
        BY <2>2 DEF Mirrors
      <3>2. Fits(mode, Result(q, ring[1], cached[q]), q, 1)
        BY <1>1, <1>2, <3>1, FitsAdvance
      <3> QED
        BY <1>1, <3>1, <3>2
    <2>6. ASSUME NEW q \in known'
          PROVE  owner'[q] = q /\ (q = Other => process'[Other] = Other) /\ Fits(mode, cached'[q], q, 1)
      <3>1. q \in Threads
        BY DEF TypeInv
      <3>2. CASE q # p
        <4>1. Result(q, r, cached[q]) = cached[q]
          BY <1>1, <3>2 DEF Result
        <4>2. q \in known /\ owner'[q] = owner[q] /\ cached'[q] = cached[q]
          BY <2>4, <2>6, <3>1, <3>2
        <4> QED
          BY <1>1, <2>5, <4>1, <4>2
      <3>3. CASE q = p
        <4>1. owner'[p] = p /\ (q = Other => process'[Other] = Other)
          BY <1>1, <2>3, <2>4, <2>6, <3>3
        <4>2. CASE cached'[p] = r.table
          <5>1. Fits(mode, ring[1].table, ring[1].thread, 1)
            BY <1>1, <2>2 DEF Mirrors
          <5> QED
            BY <1>1, <3>3, <4>1, <4>2, <5>1
        <4>3. CASE p \in known /\ cached'[p] = After(r, cached[p])
          <5>1. Result(p, r, cached[p]) = cached'[p]
            BY <1>1, <4>3 DEF Result
          <5> QED
            BY <2>5, <3>3, <4>1, <4>3, <5>1
        <4> QED
          BY <2>4, <2>6, <3>3, <4>2, <4>3
      <3> QED
        BY <3>2, <3>3
    <2> QED
      BY <1>1, <1>2, <2>2, <2>6, MirrorsShift
  <1> QED
    BY <1>3, <1>4 DEF MirrorAll, MirrorInv

\* A new process is known from now on, by some table.
LEMMA ForkResult ==
  ASSUME TypeInv, ConsumeFork
  PROVE  /\ known' \subseteq known \cup {Other}
         /\ owner'[Main] = owner[Main] /\ cached'[Main] = cached[Main]
         /\ \/ Other \in known /\ owner'[Other] = owner[Other] /\ cached'[Other] = cached[Other]
            \/ Other \notin known'
            \/ owner'[Other] = Other /\ cached'[Other] \in Tables
  <1>1. PICK live : live = files[process[Other]]
    OBVIOUS
  <1>2. live \in Tables
    BY <1>1, Limits DEF TypeInv, ProcessInv, Tables
  <1>3. /\ known \subseteq Threads /\ owner \in [Threads -> Threads] /\ cached \in [Threads -> Tables]
        /\ Other \in Threads /\ Main \in Threads /\ Main # Other
    BY Limits DEF TypeInv, Tables
  <1>4. ASSUME NEW V \in Tables, SetCache(InsertContext(Now, Other, Other, V))
        PROVE  /\ known' = known \cup {Other}
               /\ owner' = [owner EXCEPT ![Other] = Other]
               /\ cached' = [cached EXCEPT ![Other] = V]
    <2>1. PICK s \in CacheState : s = Now /\ s.known = known /\ s.owner = owner /\ s.cached = cached
      BY NowType DEF Now
    <2>2. PICK e : e = InsertContext(s, Other, Other, V)
      OBVIOUS
    <2>3. e = [s EXCEPT !.known = s.known \cup {Other}, !.owner = [s.owner EXCEPT ![Other] = Other],
                        !.cached = [s.cached EXCEPT ![Other] = V]]
      BY <2>2 DEF InsertContext
    <2>4. /\ e.known = s.known \cup {Other} /\ e.owner = [s.owner EXCEPT ![Other] = Other]
          /\ e.cached = [s.cached EXCEPT ![Other] = V]
      BY <2>1, <2>3 DEF CacheState
    <2>5. SetCache(e)
      BY <1>4, <2>1, <2>2
    <2> QED
      BY <2>1, <2>4, <2>5 DEF SetCache
  <1>5. ASSUME NEW V \in Tables, SetCache(InsertContext(Now, Other, Other, V))
        PROVE  /\ known' \subseteq known \cup {Other}
               /\ owner'[Main] = owner[Main] /\ cached'[Main] = cached[Main]
               /\ owner'[Other] = Other /\ cached'[Other] \in Tables
    <2>1. /\ known' = known \cup {Other}
          /\ owner' = [owner EXCEPT ![Other] = Other]
          /\ cached' = [cached EXCEPT ![Other] = V]
      BY <1>4, <1>5
    <2> QED
      BY <1>3, <2>1
  <1>6. ASSUME SetCache(Now) PROVE known' = known /\ owner' = owner /\ cached' = cached
    BY <1>6 DEF SetCache, Now
  <1>7. \/ SetCache(InsertContext(Now, Other, Other, live))
        \/ SetCache(InsertContext(Now, Other, Other, cached[owner[Main]]))
        \/ SetCache(Now)
    BY <1>1 DEF ConsumeFork, ForkThread
  <1>8. cached[owner[Main]] \in Tables
    BY <1>3
  <1> QED
    BY <1>2, <1>5, <1>6, <1>7, <1>8

LEMMA ForkKeepsMirror ==
  ASSUME TypeInv, TypeInv', MirrorAll, ConsumeFork
  PROVE  MirrorAll'
  <1>1. /\ ring # << >> /\ ring' = Tail(ring) /\ Head(ring).kind = "fork"
        /\ UNCHANGED <<thread, process, files, followed, shown>> /\ causes \subseteq causes'
        /\ process[Other] = Main => "split" \in causes'
    BY DEF ConsumeFork, kernel
  <1>2. PICK r : r = ring[1]
    OBVIOUS
  <1>3. r.kind = "fork" /\ 1 \in DOMAIN ring
    BY <1>1, <1>2, HeadType
  <1>4. RingInv /\ RingInv' /\ Taken
    BY <1>1, TakenRing DEF TypeInv
  <1>5. "split" \notin causes' => Single /\ process[Other] = Other
    BY <1>1 DEF Single, TypeInv, ProcessInv, Threads
  <1>6. SingleInv' /\ RecordsInv'
    BY <1>1, <1>4, <1>5, RecordsShift, KernelKeepsSingle DEF MirrorAll
  <1>7. ASSUME NEW mode \in Modes, Fine(mode)' PROVE Mirrors(mode)'
    <2>1. Fine(mode) /\ "split" \notin causes'
      BY <1>1, <1>7 DEF Fine, Modes
    <2>2. Mirrors(mode) /\ Single /\ process[Other] = Other /\ Before(1)
      BY <1>5, <2>1 DEF MirrorAll, MirrorInv, Before
    <2>3. /\ known' \subseteq known \cup {Other}
          /\ owner'[Main] = owner[Main] /\ cached'[Main] = cached[Main]
          /\ \/ Other \in known /\ owner'[Other] = owner[Other] /\ cached'[Other] = cached[Other]
             \/ Other \notin known'
             \/ owner'[Other] = Other /\ cached'[Other] \in Tables
      BY ForkResult
    <2>4. ASSUME NEW q \in known PROVE owner[q] = q /\ Fits(mode, cached[q], q, 1)
      <3>1. owner[q] = q /\ Fits(mode, cached[q], q, 0)
        BY <2>2 DEF Mirrors
      <3>2. Fits(mode, Result(q, ring[1], cached[q]), q, 1)
        BY <1>3, <1>4, <2>2, <3>1, FitsAdvance
      <3>3. Result(q, ring[1], cached[q]) = cached[q]
        BY <1>2, <1>3 DEF Result, After
      <3> QED
        BY <3>1, <3>2, <3>3
    <2>5. \A V \in Tables : Fits(mode, V, Other, 1)
      BY <1>2, <1>3, <2>2 DEF Mirrors
    <2>6. ASSUME NEW q \in known'
          PROVE  owner'[q] = q /\ (q = Other => process'[Other] = Other) /\ Fits(mode, cached'[q], q, 1)
      <3>1. q = Main \/ q = Other
        BY DEF TypeInv, Threads
      <3>2. CASE q = Main
        <4>1. q \in known
          BY <2>3, <2>6, <3>2, Limits
        <4> QED
          BY <2>3, <2>4, <3>2, <4>1, Limits
      <3>3. CASE q = Other
        <4>1. CASE Other \in known /\ owner'[Other] = owner[Other] /\ cached'[Other] = cached[Other]
          BY <1>1, <2>2, <2>4, <3>3, <4>1
        <4>2. CASE owner'[Other] = Other /\ cached'[Other] \in Tables
          BY <1>1, <2>2, <2>5, <3>3, <4>2
        <4> QED
          BY <2>3, <2>6, <3>3, <4>1, <4>2
      <3> QED
        BY <3>1, <3>2, <3>3
    <2> QED
      BY <1>1, <1>4, <2>2, <2>6, MirrorsShift
  <1> QED
    BY <1>6, <1>7 DEF MirrorAll, MirrorInv

-----------------------------------------------------------------------------
(* The verdicts.                                                            *)

Verdicts == LineIsTrue /\ WatchedCallShows

LEMMA SyscallVerdicts ==
  ASSUME TypeInv, TypeInv', MirrorAll, ConsumeSyscall, Verdicts
  PROVE  Verdicts'
  <1>1. PICK r \in Record, p \in Threads :
           /\ r = ring[1] /\ p = r.thread /\ 1 \in DOMAIN ring /\ r.kind # "fork" /\ Taken /\ Before(1)
           /\ UNCHANGED <<thread, process, files, followed, shown>> /\ causes \subseteq causes'
           /\ causes' \cap {"lost", "split"} = {} =>
                /\ process[p] = p
                /\ r.kind = "open" => r.path \in Paths /\ r.table[r.to] = r.path
    BY HeadKnown
  <1>2. ASSUME NEW mode \in Modes, Fine(mode)'
        PROVE  \/ verdict' = verdict /\ Fine(mode)
               \/ \E said, actual, seen :
                    /\ verdict' = Verdict(said, actual, seen)
                    /\ said = "gap" \/ said = actual
                       \/ (mode = "shows" /\ ~(seen /\ actual \in Watched))
    <2>1. Fine(mode) /\ "behind" \notin causes' /\ causes' \cap {"lost", "split"} = {}
      BY <1>1, <1>2 DEF Fine, Modes
    <2>2. Mirrors(mode)
      BY <2>1 DEF MirrorAll, MirrorInv
    <2>3. process[p] = p /\ (p \in known => owner[p] = p)
      BY <1>1, <2>1, <2>2 DEF Mirrors
    <2>4. /\ r.kind # "use" => verdict' = verdict
          /\ r.kind = "use" => \E said :
               /\ verdict' = Verdict(said, r.table[r.fd], r.shown)
               /\ \/ said \in {"gap", r.table[r.fd]}
                  \/ p \in known /\ said = cached[p][r.fd]
      BY <1>1, <2>1, <2>3, ConsumeResult
    <2>5. CASE r.kind = "use"
      <3>1. PICK said :
              /\ verdict' = Verdict(said, r.table[r.fd], r.shown)
              /\ \/ said \in {"gap", r.table[r.fd]}
                 \/ p \in known /\ said = cached[p][r.fd]
        BY <2>4, <2>5
      <3>2. ASSUME p \in known PROVE Right(mode, r, cached[p])
        <4>1. Fits(mode, cached[p], p, 0)
          BY <2>2, <3>2 DEF Mirrors
        <4>2. ring[1].thread = p => Right(mode, ring[1], cached[p])
          BY <1>1, <4>1, FitsAdvance DEF TypeInv
        <4> QED
          BY <1>1, <4>2
      <3>3. said = "gap" \/ said = r.table[r.fd]
            \/ (mode = "shows" /\ ~(r.shown /\ r.table[r.fd] \in Watched))
        BY <2>5, <3>1, <3>2 DEF Right, Checked, Modes
      <3> QED
        BY <3>1, <3>3
    <2>6. CASE r.kind # "use"
      BY <2>1, <2>4, <2>6
    <2> QED
      BY <2>5, <2>6
  <1>3. \A said, actual, seen :
          LET v == Verdict(said, actual, seen) IN
          v.said = said /\ v.actual = actual /\ v.shown = seen
    BY DEF Verdict
  <1>4. "gap" \notin Watched
    BY FdAssumption
  <1>5. LineIsTrue'
    <2> SUFFICES ASSUME verdict'.said \in Watched, verdict'.said # verdict'.actual,
                        causes' \subseteq {"full"}
                 PROVE  FALSE
      BY DEF LineIsTrue
    <2>1. "line" \in Modes /\ Fine("line")'
      BY DEF Fine, Modes
    <2>2. CASE verdict' = verdict /\ Fine("line")
      <3>1. causes \subseteq {"full"}
        BY <2>2 DEF Fine
      <3> QED
        BY <2>2, <3>1 DEF Verdicts, LineIsTrue
    <2>3. CASE \E said, actual, seen :
                 verdict' = Verdict(said, actual, seen) /\ (said = "gap" \/ said = actual)
      BY <1>3, <1>4, <2>3
    <2> QED
      BY <1>2, <2>1, <2>2, <2>3
  <1>6. WatchedCallShows'
    <2> SUFFICES ASSUME verdict'.actual \in Watched, verdict'.shown, causes' \subseteq {"dup2"},
                        verdict'.said \notin Watched \cup {"gap"}
                 PROVE  FALSE
      BY DEF WatchedCallShows
    <2>1. "shows" \in Modes /\ Fine("shows")'
      BY DEF Fine, Modes
    <2>2. CASE verdict' = verdict /\ Fine("shows")
      <3>1. causes \subseteq {"dup2"}
        BY <2>2 DEF Fine
      <3> QED
        BY <2>2, <3>1 DEF Verdicts, WatchedCallShows
    <2>3. CASE \E said, actual, seen :
                 /\ verdict' = Verdict(said, actual, seen)
                 /\ said = "gap" \/ said = actual \/ ~(seen /\ actual \in Watched)
      BY <1>3, <2>3
    <2> QED
      BY <1>2, <2>1, <2>2, <2>3
  <1> QED
    BY <1>5, <1>6 DEF Verdicts

LEMMA EffectVerdicts ==
  ASSUME TypeInv, TypeInv', FollowInv, NEW t \in Threads, Effect(t), causes \subseteq causes', Verdicts
  PROVE  Verdicts'
  <1>1. CASE UNCHANGED verdict
    BY <1>1 DEF Verdicts, LineIsTrue, WatchedCallShows
  <1>2. CASE Use(t) /\ verdict' # verdict
    <2>1. PICK fd, actual, seen : /\ fd = thread[t].fd /\ actual = Table(t)[fd] /\ seen = Shown(t, fd)
      OBVIOUS
    <2>2. /\ thread[t].kind = "use" /\ thread[t].pc = "call" /\ ~thread[t].saved
          /\ verdict' = Verdict("filtered", actual, seen) /\ UNCHANGED causes
      BY <1>2, <2>1 DEF Use, Effect
    <2>3. verdict'.said = "filtered" /\ verdict'.actual = actual /\ verdict'.shown = seen
      BY <2>2 DEF Verdict
    <2>4. "filtered" \notin Watched
      BY FdAssumption
    <2>5. LineIsTrue'
      BY <2>3, <2>4 DEF LineIsTrue
    <2>6. ASSUME causes \subseteq {"dup2"}, actual \in Watched, seen PROVE FALSE
      <3>1. DroppedUnwanted
        BY <2>6 DEF FollowInv, Clean
      <3>2. ~Wanted(process[t], fd)
        BY <2>1, <2>2, <3>1 DEF DroppedUnwanted
      <3> QED
        BY <2>1, <2>6, <3>2 DEF Wanted, Table, Shown
    <2> QED
      BY <2>2, <2>3, <2>5, <2>6 DEF Verdicts, WatchedCallShows
  <1> QED
    BY <1>1, <1>2 DEF Effect, Open, Close, Dup, Dup2, Fail

\* Only the end of a call on a descriptor has a verdict.
LEMMA QuietVerdicts ==
  ASSUME Verdicts, UNCHANGED verdict, causes \subseteq causes'
  PROVE  Verdicts'
  BY DEF Verdicts, LineIsTrue, WatchedCallShows

-----------------------------------------------------------------------------
(* The replay holds throughout.                                             *)

LEMMA InitMirrors == Init => MirrorAll /\ Verdicts
  <1> SUFFICES ASSUME Init PROVE MirrorAll /\ Verdicts
    OBVIOUS
  <1>1. TypeInv
    BY InitTypes
  <1>2. /\ thread = [t \in Threads |-> IF t = Main THEN Idle ELSE Absent]
        /\ ring = << >> /\ followed = {} /\ shown = {} /\ owner = [t \in Threads |-> Main]
        /\ known = {} \/ (known = {Main} /\ cached = files)
        /\ verdict = Verdict("none", NoPath, FALSE)
    BY DEF Init
  <1>3. thread[Other].pc = "absent" /\ \A p \in Threads : thread[p].pc \in {"user", "absent"}
    <2>1. Absent.pc = "absent"
      BY DEF Absent, Idle
    <2> QED
      BY <1>2, <2>1, IdleType, Limits
  <1>4. Single /\ \A p \in Threads : ~Leaving(p)
    BY <1>3 DEF Single, Leaving
  <1>5. DOMAIN ring = {} /\ Len(ring) = 0
    BY <1>2
  <1>6. SingleInv
    BY <1>2, <1>3, <1>4 DEF SingleInv, CallInv, Follows
  <1>7. RecordsInv
    BY <1>4, <1>5 DEF RecordsInv
  <1>8. ASSUME NEW mode \in Modes PROVE Mirrors(mode)
    <2>1. ASSUME NEW p \in known PROVE owner[p] = p /\ p # Other /\ Fits(mode, cached[p], p, 0)
      <3>1. p = Main /\ cached = files /\ owner[Main] = Main /\ Main # Other /\ Main \in Threads
        BY <1>2, <2>1, Limits
      <3>2. PICK V \in Tables : V = files[Main]
        BY <1>1, <3>1 DEF TypeInv, Tables
      <3>3. End(mode, Main, V)
        <4>1. \A fd \in Fds : V[fd] = files[Main][fd]
          BY <3>2
        <4>2. thread[Main].pc # "submit"
          BY <1>3, <3>1
        <4> QED
          BY <4>1, <4>2 DEF End
      <3>4. Fits(mode, V, Main, Len(ring))
        BY <1>1, <3>3, FitsNow DEF TypeInv
      <3> QED
        BY <1>5, <3>1, <3>2, <3>4
    <2> QED
      BY <1>5, <2>1 DEF Mirrors
  <1>9. Verdicts
    <2>1. verdict.said = "none" /\ verdict.actual = NoPath
      BY <1>2 DEF Verdict
    <2>2. "none" \notin Watched /\ NoPath \notin Watched
      BY FdAssumption, Limits
    <2> QED
      BY <2>1, <2>2 DEF Verdicts, LineIsTrue, WatchedCallShows
  <1> QED
    BY <1>6, <1>7, <1>8, <1>9 DEF MirrorAll, MirrorInv

LEMMA StutterMirrors ==
  ASSUME MirrorAll, UNCHANGED vars
  PROVE  MirrorAll'
  <1>1. UNCHANGED <<thread, process, files, followed, ring, known, owner, cached, shown, causes>>
    BY DEF vars, kernel, cache
  <1>2. SingleInv'
    BY <1>1, KernelKeepsSingle DEF MirrorAll
  <1>3. Single' <=> Single
    BY <1>1 DEF Single
  <1>4. \A k : Before(k)' <=> Before(k)
    BY <1>1, <1>3 DEF Before
  <1>5. RecordsInv'
    BY <1>1, <1>3, <1>4 DEF MirrorAll, RecordsInv
  <1>6. ASSUME NEW mode, NEW T, NEW p, NEW i, Fits(mode, T, p, i) PROVE Fits(mode, T, p, i)'
    <2>1. PICK s \in [Nat -> Tables] :
            /\ s[i] = T
            /\ \A k \in DOMAIN ring : k > i /\ Before(k) => Replayed(mode, p, s, k)
            /\ Single => End(mode, p, s[Len(ring)])
      BY <1>6 DEF Fits
    <2>2. \A k : Replayed(mode, p, s, k) => Replayed(mode, p, s, k)'
      BY <1>1 DEF Replayed
    <2>3. \A V : End(mode, p, V) => End(mode, p, V)'
      BY <1>1 DEF End, Trusted, Follows, Leaving, Wanted
    <2>4. End(mode, p, s[Len(ring)]) => End(mode, p, s[Len(ring)])'
      <3>1. PICK V : V = s[Len(ring)]
        OBVIOUS
      <3> QED
        BY <1>1, <2>3, <3>1 DEF End
    <2> QED
      BY <1>1, <1>3, <1>4, <2>1, <2>2, <2>4 DEF Fits
  <1>7. ASSUME NEW mode \in Modes, Fine(mode)' PROVE Mirrors(mode)'
    <2>1. Mirrors(mode)
      BY <1>1, <1>7 DEF Fine, MirrorAll, MirrorInv
    <2>2. \A p \in known : Fits(mode, cached[p], p, 0) => Fits(mode, cached[p], p, 0)'
      <3> TAKE p \in known
      <3>1. PICK T : T = cached[p]
        OBVIOUS
      <3>2. T = cached'[p] /\ (Fits(mode, T, p, 0) => Fits(mode, T, p, 0)')
        BY <1>1, <1>6, <3>1
      <3> QED
        BY <3>1, <3>2 DEF Fits
    <2>3. \A i \in DOMAIN ring : Fits(mode, ring[i].table, ring[i].thread, i)
                                   => Fits(mode, ring[i].table, ring[i].thread, i)'
      <3> TAKE i \in DOMAIN ring
      <3>1. PICK T, p : T = ring[i].table /\ p = ring[i].thread
        OBVIOUS
      <3>2. ring'[i] = ring[i] /\ (Fits(mode, T, p, i) => Fits(mode, T, p, i)')
        BY <1>1, <1>6
      <3> QED
        BY <3>1, <3>2 DEF Fits
    <2> QED
      BY <1>1, <1>3, <1>4, <1>6, <2>1, <2>2, <2>3 DEF Mirrors
  <1> QED
    BY <1>2, <1>5, <1>7 DEF MirrorAll, MirrorInv

LEMMA NextMirrors ==
  ASSUME IInv, TypeInv', MirrorAll, Verdicts, [Next]_vars
  PROVE  MirrorAll' /\ Verdicts'
  <1>1. TypeInv /\ FollowInv /\ RingInv' /\ causes \subseteq causes'
    BY CleanBefore DEF IInv, TypeInv
  <1>2. ASSUME NEW t \in Threads, ThreadStep(t) PROVE MirrorAll' /\ Verdicts'
    <2>1. SingleInv'
      BY <1>1, <1>2, StepKeepsSingle DEF MirrorAll
    <2>2. RecordsInv' /\ MirrorInv'
      BY <1>1, <1>2, StepKeepsMirror, SubmitKeepsMirror DEF ThreadStep
    <2>3. CASE Effect(t)
      BY <1>1, <2>1, <2>2, <2>3, EffectVerdicts DEF MirrorAll
    <2>4. CASE Enter(t) \/ Submit(t) \/ Follow(t)
      <3>1. UNCHANGED verdict
        BY <2>4 DEF Enter, Submit, Follow
      <3> QED
        BY <1>1, <2>1, <2>2, <3>1, QuietVerdicts DEF MirrorAll
    <2> QED
      BY <1>2, <2>3, <2>4 DEF ThreadStep
  <1>3. CASE Clone
    <2>1. UNCHANGED verdict
      BY <1>3 DEF Clone
    <2> QED
      BY <1>1, <1>3, <2>1, CloneKeepsMirror, QuietVerdicts
  <1>4. CASE ConsumeSyscall
    BY <1>1, <1>4, SyscallKeepsMirror, SyscallVerdicts
  <1>5. CASE ConsumeFork
    <2>1. UNCHANGED verdict
      BY <1>5 DEF ConsumeFork
    <2> QED
      BY <1>1, <1>5, <2>1, ForkKeepsMirror, QuietVerdicts
  <1>6. CASE UNCHANGED vars
    <2>1. UNCHANGED verdict
      BY <1>6 DEF vars
    <2> QED
      BY <1>1, <1>6, <2>1, StutterMirrors, QuietVerdicts
  <1> QED
    BY <1>2, <1>3, <1>4, <1>5, <1>6 DEF Next

\* Init and every step keep the tables right, and with them what the audit has said.
THEOREM Mirroring == Spec => [](MirrorAll /\ Verdicts)
  <1>1. IInv /\ IInv' /\ MirrorAll /\ Verdicts /\ [Next]_vars => MirrorAll' /\ Verdicts'
    BY NextMirrors DEF IInv
  <1> QED
    BY <1>1, InitMirrors, Invariance, PTL DEF Spec

-----------------------------------------------------------------------------
(* The theorems.                                                            *)

\* The types, and WATCH_FDS and the ring never hold more than they can.
THEOREM TypeCorrect == Spec => []TypeOK
  <1>1. IInv => TypeOK
    <2> SUFFICES ASSUME IInv PROVE TypeOK
      OBVIOUS
    <2>1. \A t \in Threads : thread[t].pc \in {"absent", "user", "call", "submit", "follow"}
      BY ThreadType DEF IInv, TypeInv
    <2>2. calls <= MaxCalls /\ verdict.said \in Said /\ verdict.actual \in Targets
      BY Limits DEF IInv, TypeInv
    <2> QED
      BY <2>1, <2>2 DEF IInv, TypeInv, ProcessInv, RingInv, TypeOK
  <1> QED
    BY <1>1, Invariance, PTL

\* A descriptor of a watched file that the program opened by name, or copied from one,
\* is followed once every call that names it has returned.
THEOREM WantedIsFollowed == Spec => []ShownIsFollowed
  <1>1. IInv => ShownIsFollowed
    <2> SUFFICES ASSUME IInv, Clean, NEW p \in Threads, NEW fd \in Fds, Wanted(p, fd),
                        ~\E u \in Threads : /\ process[u] = p /\ fd \in {thread[u].fd, thread[u].to}
                                           /\ thread[u].pc \notin {"absent", "user"}
                 PROVE  <<p, fd>> \in followed
      BY DEF ShownIsFollowed, Wanted, Clean
    <2>1. Follows(p, fd) \/ \E u \in Threads : Following(u, p, fd)
      BY DEF IInv, FollowInv, WantedFollowed
    <2>2. ~\E u \in Threads : Following(u, p, fd)
      BY DEF Following, Leaving
    <2> QED
      BY <2>1, <2>2 DEF Follows
  <1> QED
    BY <1>1, Invariance, PTL

\* What the audit says is true: a call by descriptor that is matched with a watched path
\* went to that path, unless dup2 replaced a file, a record was lost, a number was reused
\* in flight, a thread got a table of its own or /proc was read ahead of the records.
THEOREM AuditLineIsTrue == Spec => []LineIsTrue
  BY Mirroring, PTL DEF Verdicts

\* What the audit should say is said: a call that reached a watched file through a
\* descriptor the filter saw appear is matched with a watched path or reported as a gap,
\* as long as nothing of that kind happened and WATCH_FDS had room.
THEOREM WatchedCallsShow == Spec => []WatchedCallShows
  BY Mirroring, PTL DEF Verdicts
=============================================================================
