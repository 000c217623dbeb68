----------------------- MODULE ExecCorrelationProofs -----------------------
(***************************************************************************)
(* Proofs about ExecCorrelation, for any threads and any bounds on calls,  *)
(* ring and pending attempts.                                              *)
(*                                                                         *)
(* Whether an attempt meets its result, and the argv its Syscall record,   *)
(* is decided by the order of records in the ring. The inductive invariant *)
(* says of every record what must lie before it (Captured, Served) and     *)
(* behind it (Claimed), with completed[t] in the place of a result that    *)
(* has just left the ring and a thread about to emit in the place of the   *)
(* record it will submit.                                                  *)
(***************************************************************************)
EXTENDS ExecCorrelation, FiniteSetTheorems, SequenceTheorems, TLAPS

End == Len(ring) + 1

IsRecord(i, kind, t, c) ==
  ring[i].kind = kind /\ ring[i].thread = t /\ ring[i].call = c

\* No result and no Syscall record of t strictly between two positions.
Quiet(t, a, b) ==
  \A k \in DOMAIN ring : a < k /\ k < b => ring[k].thread # t \/ ring[k].kind = "attempt"

\* Given up before its result came.
GivenUp(c) == \E g \in gaps : g.call = c /\ g.reason \in {"capacity", "timeout"}

\* The argv of c was attached, or waits to be.
Used(c) == (\E t \in Threads : completed[t] = c) \/ (\E l \in lines : l.argv = c)

\* What the collector knows, or will know, of attempt c when it reaches position b.
Captured(t, c, b) ==
  \/ GivenUp(c)
  \/ <<t, c>> \in pending
  \/ \E i \in DOMAIN ring : i < b /\ IsRecord(i, "attempt", t, c)

\* Why the Syscall record of exec c at position b gets its argv, or none.
Served(t, c, b) ==
  \/ c \in argvLost
  \/ Gapped(c)
  \/ completed[t] = c /\ Quiet(t, 0, b)
  \/ \E j \in DOMAIN ring : j < b /\ IsRecord(j, "result", t, c) /\ Quiet(t, j, b)

\* What follows result c at position a: its own Syscall record, unless that was lost.
Claimed(t, c, a) ==
  \/ c \in ringLost
  \/ thread[t].pc = "emit" /\ inflight[t] = c /\ Quiet(t, a, End)
  \/ \E i \in DOMAIN ring : a < i /\ IsRecord(i, "syscall", t, c) /\ Quiet(t, a, i)

-----------------------------------------------------------------------------
(* The inductive invariant.                                                 *)

Bounded ==
  /\ IsFiniteSet(pending)
  /\ \A t \in Threads : inflight[t] <= calls
  /\ \A i \in DOMAIN ring : ring[i].call <= calls
  /\ \A i \in DOMAIN ring : ring[i].kind # "syscall" => ring[i].call \in execs
  /\ \A l \in lines : l.call <= calls

\* An attempt id that waits for sys_exit.
OpenAttempt ==
  \A t \in Threads : attempts[t] # None =>
    /\ \A u \in Threads : attempts[u] = attempts[t] => u = t
    /\ \A i \in DOMAIN ring : ring[i].kind = "result" => ring[i].call # attempts[t]
    /\ Captured(t, attempts[t], End)
    /\ ~Used(attempts[t])

\* Attempt and result of a call are submitted once.
RecordsOnce ==
  \A i, j \in DOMAIN ring :
    ring[i].kind = ring[j].kind /\ ring[i].kind # "syscall" /\ ring[i].call = ring[j].call
      => i = j

\* An attempt in the ring, and one that is pending, has not been dealt with.
AttemptNew ==
  \A i \in DOMAIN ring : ring[i].kind = "attempt" =>
    /\ \A p \in pending : p[2] # ring[i].call
    /\ ~Gapped(ring[i].call) /\ ~Used(ring[i].call)

PendingNew ==
  \A p \in pending :
    /\ \A q \in pending : q[2] = p[2] => q = p
    /\ ~Gapped(p[2]) /\ ~Used(p[2])

ResultOpen ==
  \A i \in DOMAIN ring : ring[i].kind = "result" =>
    Captured(ring[i].thread, ring[i].call, i) /\ ~Used(ring[i].call)

UsedNotGapped == \A c \in execs : Used(c) => ~Gapped(c)

\* EXEC_ATTEMPTS and INFLIGHT_SYSCALLS agree.
InflightAttempt ==
  \A t \in Threads :
    /\ inflight[t] \in execs =>
         /\ attempts[t] \in {None, inflight[t]}
         /\ attempts[t] = None /\ thread[t].pc # "emit" => inflight[t] \in argvLost
    /\ thread[t].pc = "emit" => inflight[t] # None

SyscallServed ==
  /\ \A i \in DOMAIN ring : ring[i].kind = "syscall" /\ ring[i].call \in execs =>
       Served(ring[i].thread, ring[i].call, i)
  /\ \A t \in Threads : thread[t].pc = "emit" /\ inflight[t] \in execs =>
       Served(t, inflight[t], End)

ResultClaimed ==
  /\ \A i \in DOMAIN ring : ring[i].kind = "result" =>
       Claimed(ring[i].thread, ring[i].call, i)
  /\ \A t \in Threads : completed[t] # None => Claimed(t, completed[t], 0)

CallSaved ==
  \A t \in Threads : thread[t].pc = "call" /\ thread[t].call # None =>
    inflight[t] = thread[t].call \/ thread[t].call \in inflightLost

\* Where the argv of every exec is.
ArgvInv ==
  /\ OpenAttempt /\ RecordsOnce
  /\ AttemptNew /\ PendingNew /\ ResultOpen /\ UsedNotGapped

\* How the records of a thread follow each other.
OrderInv == InflightAttempt /\ SyscallServed /\ ResultClaimed

IInv ==
  /\ TypeOK /\ Bounded
  /\ ArgvInv /\ OrderInv
  /\ AttemptsAccounted /\ NoOrphanResult /\ GapOrArgv /\ MissingArgvHasReason
  /\ CallSaved /\ LostEntriesAreCounted

-----------------------------------------------------------------------------
(* Types.                                                                   *)

LEMMA Limits ==
  /\ MaxCalls \in Nat /\ RingSlots \in Nat /\ PendingSlots \in Nat
  /\ Leader \in Threads
  BY ExecAssumption

LEMMA CallsAreNat ==
  /\ Calls \subseteq Nat /\ None \in Nat /\ None \notin Calls
  /\ \A c \in Calls : c >= 1 /\ c <= MaxCalls
  BY Limits DEF Calls, None

LEMMA RingType ==
  ASSUME TypeOK
  PROVE  /\ ring \in Seq(Record) /\ Len(ring) \in Nat /\ End \in Nat
         /\ DOMAIN ring = 1 .. Len(ring)
         /\ \A i \in DOMAIN ring :
              /\ i \in Nat /\ i >= 1 /\ i < End
              /\ ring[i] \in Record
              /\ ring[i].kind \in {"attempt", "result", "syscall"}
              /\ ring[i].thread \in Threads
              /\ ring[i].call \in Calls /\ ring[i].call \in Nat
  <1>1. ring \in Seq(Record)
    BY DEF TypeOK
  <1>2. Len(ring) \in Nat /\ DOMAIN ring = 1 .. Len(ring)
    BY <1>1, LenProperties
  <1>3. \A i \in DOMAIN ring : ring[i] \in Record
    BY <1>1, <1>2, ElementOfSeq
  <1>4. \A r \in Record : /\ r.kind \in {"attempt", "result", "syscall"}
                          /\ r.thread \in Threads /\ r.call \in Calls
    BY DEF Record
  <1>5. End \in Nat /\ \A i \in DOMAIN ring : i \in Nat /\ i >= 1 /\ i < End
    BY <1>2 DEF End
  <1> QED
    BY <1>1, <1>2, <1>3, <1>4, <1>5, CallsAreNat

LEMMA ThreadType ==
  ASSUME TypeOK, NEW t \in Threads
  PROVE  /\ thread[t].pc \in {"user", "call", "emit", "dead"}
         /\ thread[t].call \in Calls \cup {None} /\ thread[t].exec \in BOOLEAN
         /\ inflight[t] \in Calls \cup {None} /\ inflight[t] \in Nat
         /\ attempts[t] \in execs \cup {None}
         /\ completed[t] \in execs \cup {None}
  <1>1. thread[t] \in [pc : {"user", "call", "emit", "dead"},
                       call : Calls \cup {None}, exec : BOOLEAN]
    BY DEF TypeOK
  <1> QED
    BY <1>1, CallsAreNat DEF TypeOK

LEMMA ExecsAreCalls ==
  ASSUME TypeOK
  PROVE  /\ calls \in Nat /\ execs \subseteq Calls
         /\ \A c \in execs : c \in Nat /\ c >= 1 /\ c <= calls
  BY Limits DEF TypeOK, Calls

\* The next number is one that nothing carries yet.
LEMMA FreshCall ==
  ASSUME TypeOK, NEW c, NumberCall(c)
  PROVE  /\ c \in Calls /\ c \in Nat /\ c # None /\ c > calls /\ c \notin execs
         /\ calls' = c /\ calls' \in 0 .. MaxCalls
         /\ calls <= calls' /\ execs \subseteq 1 .. calls' /\ execs \cup {c} \subseteq 1 .. calls'
  <1>1. c \in Calls /\ c = calls + 1 /\ calls' = c
    BY DEF NumberCall
  <1>2. c \in Nat /\ c >= 1 /\ c <= MaxCalls
    BY <1>1, CallsAreNat
  <1> QED
    BY <1>1, <1>2, ExecsAreCalls, Limits DEF None, TypeOK

-----------------------------------------------------------------------------
(* How the ring changes.                                                    *)

\* r is submitted; the head is taken.
Submitted(r) ==
  /\ DOMAIN ring' = 1 .. (Len(ring) + 1) /\ Len(ring') = Len(ring) + 1
  /\ ring'[Len(ring) + 1] = r
  /\ \A i \in DOMAIN ring : i \in DOMAIN ring' /\ ring'[i] = ring[i]

Taken ==
  /\ 1 \in DOMAIN ring
  /\ DOMAIN ring' = 1 .. (Len(ring) - 1) /\ Len(ring') = Len(ring) - 1
  /\ \A i \in DOMAIN ring' : i + 1 \in DOMAIN ring /\ ring'[i] = ring[i + 1]

LEMMA SubmittedRing ==
  ASSUME TypeOK, NEW r \in Record, Room, ring' = Append(ring, r)
  PROVE  /\ Submitted(r)
         /\ ring' \in Seq(Record) /\ Len(ring') <= RingSlots
  <1> DEFINE s == Append(ring, r)
  <1>1. ring \in Seq(Record) /\ Len(ring) \in Nat /\ DOMAIN ring = 1 .. Len(ring)
    BY RingType
  <1>2. s \in Seq(Record) /\ Len(s) = Len(ring) + 1
    BY <1>1, AppendProperties
  <1>3. s[Len(ring) + 1] = r /\ \A i \in 1 .. Len(ring) : s[i] = ring[i]
    BY <1>1, AppendProperties
  <1>4. DOMAIN s = 1 .. Len(s)
    BY <1>2, LenProperties
  <1>5. ring' = s
    OBVIOUS
  <1> HIDE DEF s
  <1>6. Len(ring) + 1 <= RingSlots
    BY <1>1, Limits DEF Room
  <1> QED
    BY <1>1, <1>2, <1>3, <1>4, <1>5, <1>6 DEF Submitted

LEMMA TakenRing ==
  ASSUME TypeOK, ring # <<>>, ring' = Tail(ring)
  PROVE  /\ Taken /\ Head(ring) = ring[1]
         /\ ring' \in Seq(Record) /\ Len(ring') <= RingSlots
  <1> DEFINE s == Tail(ring)
  <1>1. ring \in Seq(Record) /\ Len(ring) \in Nat /\ DOMAIN ring = 1 .. Len(ring)
    BY RingType
  <1>2. Head(ring) = ring[1]
    OBVIOUS
  <1>3. Len(ring) >= 1
    BY <1>1, EmptySeq
  <1>4. s \in Seq(Record) /\ Len(s) = Len(ring) - 1
    BY <1>1, HeadTailProperties
  <1>5. \A i \in 1 .. Len(s) : s[i] = ring[i + 1]
    BY <1>1, HeadTailProperties
  <1>6. DOMAIN s = 1 .. Len(s)
    BY <1>4, LenProperties
  <1>7. ring' = s
    OBVIOUS
  <1> HIDE DEF s
  <1>8. Len(ring) - 1 <= RingSlots
    BY <1>1, Limits DEF TypeOK
  <1> QED
    BY <1>1, <1>2, <1>3, <1>4, <1>5, <1>6, <1>7, <1>8 DEF Taken
-----------------------------------------------------------------------------
(* Type correctness, and the bounds that go with it.                        *)

LEMMA InitTypes == Init => TypeOK /\ Bounded
  <1> SUFFICES ASSUME Init PROVE TypeOK /\ Bounded
    OBVIOUS
  <1>1. Len(ring) = 0 /\ ring \in Seq(Record)
    BY EmptySeq DEF Init
  <1>2. IsFiniteSet(pending) /\ Cardinality(pending) = 0
    BY FS_EmptySet DEF Init
  <1>3. thread \in [Threads -> [pc : {"user", "call", "emit", "dead"},
                               call : Calls \cup {None}, exec : BOOLEAN]]
    BY DEF Init, User
  <1>4. DOMAIN ring = {}
    BY DEF Init
  <1>5. calls = 0 /\ None = 0
    BY DEF Init, None
  <1> QED
    BY <1>1, <1>2, <1>3, <1>4, <1>5, Limits DEF Init, TypeOK, Bounded

\* A kernel step that leaves the ring, and one that submits a record.
KernelTypes ==
  /\ thread' \in [Threads -> [pc : {"user", "call", "emit", "dead"},
                              call : Calls \cup {None}, exec : BOOLEAN]]
  /\ calls' \in 0 .. MaxCalls /\ calls <= calls'
  /\ execs' \subseteq 1 .. calls' /\ execs \subseteq execs'
  /\ inflight' \in [Threads -> Calls \cup {None}]
  /\ \A u \in Threads : inflight'[u] <= calls'
  /\ attempts' \in [Threads -> execs' \cup {None}]
  /\ {ringLost', argvLost', inflightLost', missed'} \subseteq SUBSET Calls
  /\ UNCHANGED collector

RingGrows(kinds) ==
  \/ UNCHANGED ring
  \/ \E r \in Record :
       /\ Submitted(r) /\ ring' \in Seq(Record) /\ Len(ring') <= RingSlots
       /\ r.kind \in kinds /\ r.call <= calls' /\ (r.kind # "syscall" => r.call \in execs')

LEMMA KernelStepTypes ==
  ASSUME TypeOK, Bounded, KernelTypes, NEW kinds, RingGrows(kinds)
  PROVE  TypeOK' /\ Bounded'
  <1>1. calls \in Nat /\ calls' \in Nat /\ calls <= calls' /\ execs \subseteq execs'
    BY Limits DEF KernelTypes, TypeOK
  <1>2. UNCHANGED <<pending, completed, gaps, lines>>
    BY DEF KernelTypes, collector
  <1>3. pending' \subseteq Threads \X execs' /\ Cardinality(pending') <= PendingSlots
    BY <1>1, <1>2 DEF TypeOK
  <1>4. completed' \in [Threads -> execs' \cup {None}]
    BY <1>1, <1>2 DEF TypeOK
  <1>5. gaps' \subseteq [reason : {"capacity", "timeout", "missing"}, call : execs']
    BY <1>1, <1>2 DEF TypeOK
  <1>6. lines' \subseteq [call : Calls, argv : execs' \cup {None}]
    BY <1>1, <1>2 DEF TypeOK
  <1>7. \A l \in lines' : l.call <= calls'
    <2> TAKE l \in lines'
    <2>1. l.call \in Nat /\ l.call <= calls
      BY <1>2, CallsAreNat DEF TypeOK, Bounded
    <2> QED
      BY <2>1, <1>1
  <1>8. ring' \in Seq(Record) /\ Len(ring') <= RingSlots
    BY DEF RingGrows, TypeOK
  <1>9. /\ \A i \in DOMAIN ring' : ring'[i].call <= calls'
        /\ \A i \in DOMAIN ring' : ring'[i].kind # "syscall" => ring'[i].call \in execs'
    <2>1. CASE UNCHANGED ring
      BY <2>1, <1>1, RingType DEF Bounded
    <2>2. CASE ~UNCHANGED ring
      <3>1. PICK r \in Record : Submitted(r) /\ r.call <= calls' /\ (r.kind # "syscall" => r.call \in execs')
        BY <2>2 DEF RingGrows
      <3>2. \A i \in DOMAIN ring' : i \in DOMAIN ring \/ i = Len(ring) + 1
        BY <3>1, RingType DEF Submitted
      <3>3. ASSUME NEW i \in DOMAIN ring
            PROVE  ring'[i] = ring[i] /\ ring[i].call <= calls'
                   /\ (ring[i].kind # "syscall" => ring[i].call \in execs')
        BY <1>1, <3>1, RingType DEF Submitted, Bounded
      <3> QED
        BY <3>1, <3>2, <3>3 DEF Submitted
    <2> QED
      BY <2>1, <2>2
  <1>10. IsFiniteSet(pending')
    BY <1>2 DEF Bounded
  <1> QED
    BY <1>3, <1>4, <1>5, <1>6, <1>7, <1>8, <1>9, <1>10 DEF KernelTypes, TypeOK, Bounded

-----------------------------------------------------------------------------
(* What each action does, thread by thread.                                 *)

\* The number an action takes can be saved, or is counted as lost.
LEMMA SaveInflightEffect ==
  ASSUME TypeOK, NEW t \in Threads, NEW c \in Calls, SaveInflight(t, c)
  PROVE  /\ inflight' \in [Threads -> Calls \cup {None}]
         /\ \A u \in Threads : u # t => inflight'[u] = inflight[u]
         /\ inflight'[t] = c \/ (inflight'[t] = None /\ c \in inflightLost')
         /\ inflightLost \subseteq inflightLost' /\ inflightLost' \subseteq Calls
  <1>1. inflight \in [Threads -> Calls \cup {None}] /\ inflightLost \subseteq Calls
    BY DEF TypeOK
  <1>2. CASE inflight' = [inflight EXCEPT ![t] = c] /\ UNCHANGED inflightLost
    BY <1>1, <1>2
  <1>3. CASE inflight[t] = None /\ inflightLost' = inflightLost \cup {c} /\ UNCHANGED inflight
    BY <1>1, <1>3
  <1> QED
    BY <1>2, <1>3 DEF SaveInflight

AttemptRecord(t, c) == [kind |-> "attempt", thread |-> t, call |-> c]
ResultRecord(t, c) == [kind |-> "result", thread |-> t, call |-> c]
SyscallRecord(t, c) == [kind |-> "syscall", thread |-> t, call |-> c]

LEMMA RecordFields ==
  ASSUME NEW t, NEW c
  PROVE  /\ AttemptRecord(t, c).kind = "attempt" /\ AttemptRecord(t, c).thread = t
         /\ AttemptRecord(t, c).call = c
         /\ ResultRecord(t, c).kind = "result" /\ ResultRecord(t, c).thread = t
         /\ ResultRecord(t, c).call = c
         /\ SyscallRecord(t, c).kind = "syscall" /\ SyscallRecord(t, c).thread = t
         /\ SyscallRecord(t, c).call = c
         /\ t \in Threads /\ c \in Calls =>
              {AttemptRecord(t, c), ResultRecord(t, c), SyscallRecord(t, c)} \subseteq Record
  BY DEF AttemptRecord, ResultRecord, SyscallRecord, Record

LostGrows ==
  /\ ringLost \subseteq ringLost' /\ ringLost' \subseteq Calls
  /\ argvLost \subseteq argvLost' /\ argvLost' \subseteq Calls

Fits == ring' \in Seq(Record) /\ Len(ring') <= RingSlots

LEMMA CaptureEffect ==
  ASSUME TypeOK, NEW t \in Threads, NEW c \in Calls, CaptureAttempt(t, c)
  PROVE  /\ attempts' \in [Threads -> execs \cup {c} \cup {None}]
         /\ \A u \in Threads : u # t => attempts'[u] = attempts[u]
         /\ LostGrows
         /\ \/ attempts'[t] = c /\ Submitted(AttemptRecord(t, c)) /\ Fits
            \/ attempts'[t] = None /\ UNCHANGED ring /\ c \in argvLost'
  <1>1. attempts \in [Threads -> execs \cup {None}] /\ ringLost \subseteq Calls /\ argvLost \subseteq Calls
    BY DEF TypeOK
  <1>2. CASE /\ Room
             /\ attempts' = [attempts EXCEPT ![t] = c]
             /\ ring' = Append(ring, AttemptRecord(t, c))
             /\ UNCHANGED <<ringLost, argvLost>>
    <2>1. Submitted(AttemptRecord(t, c)) /\ Fits
      BY <1>2, RecordFields, SubmittedRing DEF Fits
    <2> QED
      BY <1>1, <1>2, <2>1 DEF LostGrows
  <1>3. CASE /\ attempts' = [attempts EXCEPT ![t] = None]
             /\ ringLost' = ringLost \cup {c} /\ argvLost' = argvLost \cup {c}
             /\ UNCHANGED ring
    BY <1>1, <1>3 DEF LostGrows
  <1>4. CASE /\ attempts[t] = None
             /\ argvLost' = argvLost \cup {c}
             /\ UNCHANGED <<attempts, ring, ringLost>>
    BY <1>1, <1>4 DEF LostGrows
  <1> QED
    BY <1>2, <1>3, <1>4 DEF CaptureAttempt, AttemptRecord

LEMMA SubmitResultEffect ==
  ASSUME TypeOK, NEW t \in Threads, NEW c \in Calls, SubmitResult(t, c)
  PROVE  /\ LostGrows
         /\ \/ Submitted(ResultRecord(t, c)) /\ Fits
            \/ UNCHANGED ring /\ c \in ringLost' /\ c \in argvLost'
  <1>1. ringLost \subseteq Calls /\ argvLost \subseteq Calls
    BY DEF TypeOK
  <1>2. CASE Room /\ ring' = Append(ring, ResultRecord(t, c)) /\ UNCHANGED <<ringLost, argvLost>>
    <2>1. Submitted(ResultRecord(t, c)) /\ Fits
      BY <1>2, RecordFields, SubmittedRing DEF Fits
    <2> QED
      BY <1>1, <1>2, <2>1 DEF LostGrows
  <1>3. CASE ringLost' = ringLost \cup {c} /\ argvLost' = argvLost \cup {c} /\ UNCHANGED ring
    BY <1>1, <1>3 DEF LostGrows
  <1> QED
    BY <1>2, <1>3 DEF SubmitResult, ResultRecord

LEMMA EmitSyscallEffect ==
  ASSUME TypeOK, NEW t \in Threads, inflight[t] \in Calls, EmitSyscall(t)
  PROVE  /\ LostGrows
         /\ \/ Submitted(SyscallRecord(t, inflight[t])) /\ Fits
            \/ UNCHANGED ring /\ inflight[t] \in ringLost'
  <1>1. ringLost \subseteq Calls /\ argvLost \subseteq Calls /\ UNCHANGED argvLost
    BY DEF TypeOK, EmitSyscall
  <1>2. CASE Room /\ ring' = Append(ring, SyscallRecord(t, inflight[t])) /\ UNCHANGED ringLost
    <2>1. Submitted(SyscallRecord(t, inflight[t])) /\ Fits
      BY <1>2, RecordFields, SubmittedRing DEF Fits
    <2> QED
      BY <1>1, <1>2, <2>1 DEF LostGrows
  <1>3. CASE ringLost' = ringLost \cup {inflight[t]} /\ UNCHANGED ring
    BY <1>1, <1>3 DEF LostGrows
  <1> QED
    BY <1>2, <1>3 DEF EmitSyscall, SyscallRecord

-----------------------------------------------------------------------------
(* Steps that neither submit nor consume a record.                          *)

\* Threads that move, and calls that are numbered and saved, outside of sys_exit.
Outside ==
  /\ UNCHANGED <<execs, attempts, ring, ringLost, argvLost, collector>>
  /\ \A u \in Threads :
       /\ thread'[u].pc = "emit" <=> thread[u].pc = "emit"
       /\ thread[u].pc = "emit" => inflight'[u] = inflight[u]
       /\ inflight'[u] = inflight[u] \/ inflight'[u] \notin execs

LEMMA OutsideSteps ==
  ASSUME IInv, Outside
  PROVE  /\ ArgvInv' /\ OrderInv'
         /\ AttemptsAccounted' /\ NoOrphanResult' /\ GapOrArgv' /\ MissingArgvHasReason'
  <1>1. UNCHANGED <<execs, attempts, ring, ringLost, argvLost, pending, completed, gaps, lines>>
    BY DEF Outside, collector
  <1>2. ArgvInv'
    BY <1>1 DEF IInv, ArgvInv, OpenAttempt, RecordsOnce, AttemptNew, PendingNew, ResultOpen,
                UsedNotGapped, Captured, Used, Gapped, GivenUp, IsRecord, End
  <1>3. AttemptsAccounted' /\ NoOrphanResult' /\ GapOrArgv' /\ MissingArgvHasReason'
    BY <1>1 DEF IInv, AttemptsAccounted, NoOrphanResult, GapOrArgv, MissingArgvHasReason, Gapped
  <1>4. InflightAttempt'
    BY <1>1 DEF IInv, OrderInv, InflightAttempt, Outside
  <1>5. \A t, c, b : Served(t, c, b) => Served(t, c, b)'
    BY <1>1 DEF Served, Gapped, Quiet, IsRecord
  <1>6. SyscallServed'
    BY <1>1, <1>5 DEF IInv, OrderInv, SyscallServed, Outside, End
  <1>7. \A t \in Threads : \A c, a : Claimed(t, c, a) => Claimed(t, c, a)'
    BY <1>1 DEF Claimed, Quiet, IsRecord, End, Outside
  <1>8. ResultClaimed'
    BY <1>1, <1>7, RingType DEF IInv, OrderInv, ResultClaimed
  <1> QED
    BY <1>2, <1>3, <1>4, <1>6, <1>8 DEF OrderInv

\* Such a step of t, in which a call may be numbered c and saved.
LEMMA OutsidePreserves ==
  ASSUME IInv, Outside, KernelTypes, CallSaved', LostEntriesAreCounted'
  PROVE  IInv'
  <1>1. ArgvInv' /\ OrderInv' /\ AttemptsAccounted' /\ NoOrphanResult' /\ GapOrArgv'
        /\ MissingArgvHasReason'
    BY OutsideSteps
  <1>2. RingGrows({})
    BY DEF Outside, RingGrows
  <1>3. TypeOK' /\ Bounded'
    BY <1>2, KernelStepTypes DEF IInv
  <1> QED
    BY <1>1, <1>3 DEF IInv

\* A step that moves threads and nothing else.
ThreadsOnly ==
  /\ thread' \in [Threads -> [pc : {"user", "call", "emit", "dead"},
                              call : Calls \cup {None}, exec : BOOLEAN]]
  /\ UNCHANGED <<execs, calls, kernel, collector>>
  /\ \A u \in Threads : thread'[u].pc = "emit" <=> thread[u].pc = "emit"
  /\ \A u \in Threads : thread'[u].pc = "call" =>
       thread'[u].call = None \/ (thread[u].pc = "call" /\ thread'[u].call = thread[u].call)

LEMMA ThreadsOnlyPreserves ==
  ASSUME IInv, ThreadsOnly, missed' \subseteq Calls, LostEntriesAreCounted'
  PROVE  IInv'
  <1>1. UNCHANGED <<execs, calls, inflight, attempts, ring, ringLost, argvLost, inflightLost, collector>>
    BY DEF ThreadsOnly, kernel
  <1>2. Outside
    BY <1>1 DEF Outside, ThreadsOnly
  <1>3. KernelTypes
    <2>1. calls' \in 0 .. MaxCalls /\ calls <= calls'
      BY <1>1, ExecsAreCalls DEF IInv, TypeOK
    <2> QED
      BY <1>1, <2>1 DEF IInv, TypeOK, Bounded, KernelTypes, ThreadsOnly
  <1>4. CallSaved'
    BY <1>1 DEF IInv, CallSaved, ThreadsOnly
  <1> QED
    BY <1>2, <1>3, <1>4, OutsidePreserves

LEMMA EnterFilteredPreserves ==
  ASSUME IInv, NEW t \in Threads, EnterFiltered(t)
  PROVE  IInv'
  <1>1. ThreadsOnly
    BY DEF EnterFiltered, ThreadsOnly, IInv, TypeOK
  <1>2. missed' \subseteq Calls /\ LostEntriesAreCounted'
    BY DEF EnterFiltered, IInv, TypeOK, LostEntriesAreCounted, kernel
  <1> QED
    BY <1>1, <1>2, ThreadsOnlyPreserves

LEMMA SpawnPreserves ==
  ASSUME IInv, NEW t \in Threads, Spawn(t)
  PROVE  IInv'
  <1>1. ThreadsOnly
    BY DEF Spawn, ThreadsOnly, IInv, TypeOK, User
  <1>2. missed' \subseteq Calls /\ LostEntriesAreCounted'
    BY DEF Spawn, IInv, TypeOK, LostEntriesAreCounted, kernel
  <1> QED
    BY <1>1, <1>2, ThreadsOnlyPreserves

\* No thread is about to emit when an exec takes effect, before or after.
LEMMA ExecvePreserves ==
  ASSUME IInv, NEW t \in Threads, Execve(t)
  PROVE  IInv'
  <1>1. ThreadsOnly
    <2>1. /\ thread[t] \in [pc : {"user", "call", "emit", "dead"},
                           call : Calls \cup {None}, exec : BOOLEAN]
          /\ thread[t].pc = "call"
          /\ \A u \in Threads \ {t} : thread[u].pc \in {"user", "dead"}
      BY DEF Execve, IInv, TypeOK
    <2> DEFINE kept == [thread[t] EXCEPT !.exec = FALSE, !.call = IF t = Leader THEN @ ELSE None]
    <2>2. /\ kept \in [pc : {"user", "call", "emit", "dead"},
                       call : Calls \cup {None}, exec : BOOLEAN]
          /\ kept.pc = "call" /\ kept.call = IF t = Leader THEN thread[t].call ELSE None
      BY <2>1
    <2>3. thread' = [u \in Threads |-> IF u # Leader THEN Dead ELSE kept]
      BY DEF Execve
    <2> HIDE DEF kept
    <2>4. /\ thread' \in [Threads -> [pc : {"user", "call", "emit", "dead"},
                                     call : Calls \cup {None}, exec : BOOLEAN]]
          /\ \A u \in Threads : u # Leader => thread'[u].pc = "dead"
          /\ thread'[Leader] = kept
      BY <2>2, <2>3, Limits DEF Dead
    <2>5. \A u \in Threads : thread'[u].pc # "emit" /\ thread[u].pc # "emit"
      BY <2>1, <2>2, <2>4
    <2>6. \A u \in Threads : thread'[u].pc = "call" =>
            thread'[u].call = None \/ (thread[u].pc = "call" /\ thread'[u].call = thread[u].call)
      BY <2>1, <2>2, <2>4
    <2> QED
      BY <2>4, <2>5, <2>6 DEF Execve, ThreadsOnly
  <1>2. missed' \subseteq Calls /\ LostEntriesAreCounted'
    BY DEF Execve, IInv, TypeOK, LostEntriesAreCounted, kernel
  <1> QED
    BY <1>1, <1>2, ThreadsOnlyPreserves

\* A call that finds no entry was not saved: CallSaved says that it was counted.
LEMMA ExitUnseenPreserves ==
  ASSUME IInv, NEW t \in Threads, ExitUnseen(t)
  PROVE  IInv'
  <1>1. ThreadsOnly
    BY DEF ExitUnseen, ThreadsOnly, IInv, TypeOK, User
  <1>2. missed' \subseteq Calls /\ LostEntriesAreCounted'
    <2>1. thread[t].call # None => thread[t].call \in inflightLost
      BY CallsAreNat DEF IInv, CallSaved, ExitUnseen
    <2> QED
      BY <2>1, ThreadType DEF ExitUnseen, IInv, TypeOK, LostEntriesAreCounted, kernel
  <1> QED
    BY <1>1, <1>2, ThreadsOnlyPreserves

LEMMA EnterPreserves ==
  ASSUME IInv, NEW t \in Threads, NEW c \in Calls, Enter(t, c)
  PROVE  IInv'
  <1> DEFINE entered == [pc |-> "call", call |-> c, exec |-> FALSE]
  <1>1. TypeOK /\ NumberCall(c) /\ SaveInflight(t, c) /\ thread[t].pc = "user"
        /\ thread' = [thread EXCEPT ![t] = entered]
        /\ UNCHANGED <<execs, attempts, ring, ringLost, argvLost, missed, collector>>
    BY DEF IInv, Enter
  <1>2. entered \in [pc : {"user", "call", "emit", "dead"}, call : Calls \cup {None}, exec : BOOLEAN]
        /\ entered.pc = "call" /\ entered.call = c
    OBVIOUS
  <1> HIDE DEF entered
  <1>3. /\ thread' \in [Threads -> [pc : {"user", "call", "emit", "dead"},
                                   call : Calls \cup {None}, exec : BOOLEAN]]
        /\ thread'[t] = entered /\ \A u \in Threads : u # t => thread'[u] = thread[u]
    BY <1>1, <1>2 DEF TypeOK
  <1>4. /\ c \notin execs /\ calls' = c /\ calls \in Nat /\ c \in Nat /\ calls <= c
        /\ calls' \in 0 .. MaxCalls /\ execs \subseteq 1 .. calls' /\ c # None
    BY <1>1, FreshCall, ExecsAreCalls
  <1>5. /\ inflight' \in [Threads -> Calls \cup {None}]
        /\ \A u \in Threads : u # t => inflight'[u] = inflight[u]
        /\ inflight'[t] = c \/ (inflight'[t] = None /\ c \in inflightLost')
        /\ inflightLost \subseteq inflightLost' /\ inflightLost' \subseteq Calls
    BY <1>1, SaveInflightEffect
  <1>6. None \notin execs /\ None <= c
    BY <1>1, <1>4, ExecsAreCalls DEF None
  <1>7. Outside
    BY <1>1, <1>2, <1>3, <1>4, <1>5, <1>6 DEF Outside
  <1>8. \A u \in Threads : inflight'[u] <= calls'
    BY <1>1, <1>4, <1>5, <1>6, ThreadType DEF IInv, Bounded
  <1>9. KernelTypes
    BY <1>1, <1>3, <1>4, <1>5, <1>8 DEF KernelTypes, TypeOK
  <1>10. CallSaved'
    BY <1>1, <1>2, <1>3, <1>4, <1>5 DEF IInv, CallSaved
  <1>11. LostEntriesAreCounted'
    BY <1>1, <1>5 DEF IInv, LostEntriesAreCounted
  <1> QED
    BY <1>7, <1>9, <1>10, <1>11, OutsidePreserves

LEMMA ExitPreserves ==
  ASSUME IInv, NEW t \in Threads, Exit(t)
  PROVE  IInv'
  <1>1. TypeOK /\ thread[t].pc = "user" /\ thread' = [thread EXCEPT ![t] = Dead]
        /\ UNCHANGED <<execs, attempts, ring, ringLost, argvLost, missed, collector>>
    BY DEF IInv, Exit
  <1>2. /\ thread' \in [Threads -> [pc : {"user", "call", "emit", "dead"},
                                   call : Calls \cup {None}, exec : BOOLEAN]]
        /\ thread'[t].pc = "dead" /\ \A u \in Threads : u # t => thread'[u] = thread[u]
    BY <1>1 DEF TypeOK, Dead
  <1>3. CASE UNCHANGED <<calls, inflight, inflightLost>>
    <2>1. ThreadsOnly
      BY <1>1, <1>2, <1>3 DEF ThreadsOnly, kernel
    <2>2. missed' \subseteq Calls /\ LostEntriesAreCounted'
      BY <1>1, <1>3 DEF IInv, TypeOK, LostEntriesAreCounted
    <2> QED
      BY <2>1, <2>2, ThreadsOnlyPreserves
  <1>4. ASSUME NEW c \in Calls, NumberCall(c), SaveInflight(t, c)
        PROVE  IInv'
    <2>1. /\ c \notin execs /\ calls' = c /\ calls \in Nat /\ c \in Nat /\ calls <= c
          /\ calls' \in 0 .. MaxCalls /\ execs \subseteq 1 .. calls' /\ c # None
      BY <1>1, <1>4, FreshCall, ExecsAreCalls
    <2>2. /\ inflight' \in [Threads -> Calls \cup {None}]
          /\ \A u \in Threads : u # t => inflight'[u] = inflight[u]
          /\ inflight'[t] = c \/ (inflight'[t] = None /\ c \in inflightLost')
          /\ inflightLost \subseteq inflightLost' /\ inflightLost' \subseteq Calls
      BY <1>1, <1>4, SaveInflightEffect
    <2>3. None \notin execs /\ None <= c
      BY <1>1, <2>1, ExecsAreCalls DEF None
    <2>4. Outside
      BY <1>1, <1>2, <2>1, <2>2, <2>3 DEF Outside
    <2>5. \A u \in Threads : inflight'[u] <= calls'
      BY <1>1, <2>1, <2>2, <2>3, ThreadType DEF IInv, Bounded
    <2>6. KernelTypes
      BY <1>1, <1>2, <2>1, <2>2, <2>5 DEF KernelTypes, TypeOK
    <2>7. CallSaved'
      BY <1>1, <1>2, <2>2 DEF IInv, CallSaved
    <2>8. LostEntriesAreCounted'
      BY <1>1, <2>2 DEF IInv, LostEntriesAreCounted
    <2> QED
      BY <2>4, <2>6, <2>7, <2>8, OutsidePreserves
  <1> QED
    BY <1>3, <1>4 DEF Exit

-----------------------------------------------------------------------------
(* Steps that may submit a record of a thread t.                            *)

Submits(t) ==
  /\ UNCHANGED collector
  /\ LostGrows /\ execs \subseteq execs'
  /\ \/ UNCHANGED ring
     \/ \E r \in Record : r.thread = t /\ Submitted(r)

\* The records stay where they are.
LEMMA Stay ==
  ASSUME TypeOK, NEW t \in Threads, Submits(t)
  PROVE  /\ UNCHANGED <<pending, completed, gaps, lines>>
         /\ ringLost \subseteq ringLost' /\ argvLost \subseteq argvLost'
         /\ End \in Nat /\ End' \in Nat /\ End <= End'
         /\ \A i \in DOMAIN ring : i \in DOMAIN ring' /\ ring'[i] = ring[i] /\ i \in Nat /\ i < End
         /\ \A i \in DOMAIN ring' : i \in DOMAIN ring
              \/ (i = End /\ ring'[i].thread = t)
  <1>1. UNCHANGED <<pending, completed, gaps, lines>> /\ ringLost \subseteq ringLost'
        /\ argvLost \subseteq argvLost'
    BY DEF Submits, collector, LostGrows
  <1>2. Len(ring) \in Nat /\ DOMAIN ring = 1 .. Len(ring) /\ End \in Nat
        /\ \A i \in DOMAIN ring : i \in Nat /\ i < End
    BY RingType
  <1>3. CASE UNCHANGED ring
    BY <1>1, <1>2, <1>3 DEF End
  <1>4. ASSUME NEW r \in Record, r.thread = t, Submitted(r)
        PROVE  /\ End' \in Nat /\ End <= End'
               /\ \A i \in DOMAIN ring : i \in DOMAIN ring' /\ ring'[i] = ring[i]
               /\ \A i \in DOMAIN ring' : i \in DOMAIN ring
                    \/ (i = End /\ ring'[i].thread = t)
    <2>1. Len(ring') = Len(ring) + 1 /\ DOMAIN ring' = 1 .. (Len(ring) + 1) /\ ring'[Len(ring) + 1] = r
          /\ \A i \in DOMAIN ring : i \in DOMAIN ring' /\ ring'[i] = ring[i]
      BY <1>4 DEF Submitted
    <2>2. \A i \in DOMAIN ring' : i \in DOMAIN ring \/ i = Len(ring) + 1
      BY <1>2, <2>1
    <2>3. End' \in Nat /\ End <= End'
      BY <1>2, <2>1 DEF End
    <2> QED
      BY <1>4, <2>1, <2>2, <2>3 DEF End
  <1> QED
    BY <1>1, <1>2, <1>3, <1>4 DEF Submits

LEMMA SubmitsQuiet ==
  ASSUME TypeOK, NEW t \in Threads, Submits(t), NEW u, NEW a \in Nat, NEW b \in Nat,
         b <= End, Quiet(u, a, b)
  PROVE  Quiet(u, a, b)'
  <1>1. ASSUME NEW k \in DOMAIN ring', a < k, k < b
        PROVE  ring'[k].thread # u \/ ring'[k].kind = "attempt"
    <2>1. k \in DOMAIN ring /\ ring'[k] = ring[k]
      BY <1>1, Stay
    <2> QED
      BY <1>1, <2>1 DEF Quiet
  <1> QED
    BY <1>1 DEF Quiet

\* Quiet up to the end stays so when another thread submits.
LEMMA SubmitsQuietEnd ==
  ASSUME TypeOK, NEW t \in Threads, Submits(t), NEW u, u # t, NEW a \in Nat, Quiet(u, a, End)
  PROVE  Quiet(u, a, End)'
  <1>1. ASSUME NEW k \in DOMAIN ring', a < k
        PROVE  ring'[k].thread # u \/ ring'[k].kind = "attempt"
    <2>1. CASE k \in DOMAIN ring
      <3>1. ring'[k] = ring[k] /\ k < End
        BY <2>1, Stay
      <3> QED
        BY <1>1, <2>1, <3>1 DEF Quiet
    <2> QED
      BY <2>1, Stay
  <1> QED
    BY <1>1 DEF Quiet

LEMMA SubmitsPersist ==
  ASSUME TypeOK, NEW t \in Threads, Submits(t), NEW u, NEW c
  PROVE  /\ Used(c)' <=> Used(c)
         /\ Gapped(c)' <=> Gapped(c)
         /\ GivenUp(c)' <=> GivenUp(c)
         /\ \A b \in Nat : Captured(u, c, b) => Captured(u, c, b)'
         /\ Captured(u, c, End) => Captured(u, c, End)'
         /\ \A b \in Nat : b <= End /\ Served(u, c, b) => Served(u, c, b)'
         /\ u # t /\ Served(u, c, End) => Served(u, c, End)'
  <1>1. (Used(c)' <=> Used(c)) /\ (Gapped(c)' <=> Gapped(c)) /\ (GivenUp(c)' <=> GivenUp(c))
    BY Stay DEF Used, Gapped, GivenUp
  <1>2. \A j \in DOMAIN ring : j \in DOMAIN ring' /\ \A kind :
          IsRecord(j, kind, u, c) => IsRecord(j, kind, u, c)'
    BY Stay DEF IsRecord
  <1>3. ASSUME NEW b \in Nat, Captured(u, c, b)
        PROVE  Captured(u, c, b)'
    BY <1>1, <1>2, <1>3, Stay DEF Captured
  <1>4. ASSUME Captured(u, c, End)
        PROVE  Captured(u, c, End)'
    <2>1. \A i \in DOMAIN ring : i < End'
      BY Stay
    <2> QED
      BY <1>1, <1>2, <1>4, <2>1, Stay DEF Captured
  <1>5. ASSUME NEW b \in Nat, b <= End, Served(u, c, b)
        PROVE  Served(u, c, b)'
    <2>1. c \in argvLost => c \in argvLost'
      BY Stay
    <2>2. completed[u] = c /\ Quiet(u, 0, b) => (completed[u] = c /\ Quiet(u, 0, b))'
      BY <1>5, SubmitsQuiet, Stay
    <2>3. ASSUME NEW j \in DOMAIN ring, j < b, IsRecord(j, "result", u, c), Quiet(u, j, b)
          PROVE  j \in DOMAIN ring' /\ IsRecord(j, "result", u, c)' /\ Quiet(u, j, b)'
      BY <1>2, <1>5, <2>3, SubmitsQuiet, Stay
    <2> QED
      BY <1>1, <1>5, <2>1, <2>2, <2>3 DEF Served
  <1>6. ASSUME u # t, Served(u, c, End)
        PROVE  Served(u, c, End)'
    <2>1. c \in argvLost => c \in argvLost'
      BY Stay
    <2>2. completed[u] = c /\ Quiet(u, 0, End) => (completed[u] = c /\ Quiet(u, 0, End))'
      BY <1>6, SubmitsQuietEnd, Stay
    <2>3. ASSUME NEW j \in DOMAIN ring, j < End, IsRecord(j, "result", u, c), Quiet(u, j, End)
          PROVE  j \in DOMAIN ring' /\ j < End' /\ IsRecord(j, "result", u, c)' /\ Quiet(u, j, End)'
      BY <1>2, <1>6, <2>3, SubmitsQuietEnd, Stay
    <2> QED
      BY <1>1, <1>6, <2>1, <2>2, <2>3 DEF Served
  <1> QED
    BY <1>1, <1>3, <1>4, <1>5, <1>6

\* What claims a result still does, if it is a lost or submitted record, or another thread.
LEMMA SubmitsClaimed ==
  ASSUME TypeOK, NEW t \in Threads, Submits(t), NEW u, NEW c, NEW a \in Nat, Claimed(u, c, a),
         u # t => thread'[u] = thread[u] /\ inflight'[u] = inflight[u],
         u = t => ~(thread[u].pc = "emit" /\ inflight[u] = c /\ Quiet(u, a, End))
  PROVE  Claimed(u, c, a)'
  <1>1. CASE c \in ringLost
    BY <1>1, Stay DEF Claimed
  <1>2. CASE thread[u].pc = "emit" /\ inflight[u] = c /\ Quiet(u, a, End)
    <2>1. u # t
      BY <1>2
    <2>2. Quiet(u, a, End)'
      BY <1>2, <2>1, SubmitsQuietEnd
    <2> QED
      BY <1>2, <2>1, <2>2 DEF Claimed
  <1>3. ASSUME NEW i \in DOMAIN ring, a < i, IsRecord(i, "syscall", u, c), Quiet(u, a, i)
        PROVE  Claimed(u, c, a)'
    <2>1. i \in DOMAIN ring' /\ ring'[i] = ring[i] /\ i \in Nat /\ i <= End
      BY Stay
    <2>2. Quiet(u, a, i)' /\ IsRecord(i, "syscall", u, c)'
      BY <1>3, <2>1, SubmitsQuiet DEF IsRecord
    <2> QED
      BY <1>3, <2>1, <2>2 DEF Claimed
  <1> QED
    BY <1>1, <1>2, <1>3 DEF Claimed

\* What the ring held keeps its properties; a new record is judged where it is submitted.
LEMMA SubmitsArgv ==
  ASSUME IInv, NEW t \in Threads, Submits(t)
  PROVE  /\ \A i \in DOMAIN ring : ring[i].kind = "attempt" =>
              /\ \A p \in pending' : p[2] # ring'[i].call
              /\ ~Gapped(ring[i].call)' /\ ~Used(ring[i].call)'
         /\ PendingNew'
         /\ \A i \in DOMAIN ring : ring[i].kind = "result" =>
              Captured(ring[i].thread, ring[i].call, i)' /\ ~Used(ring[i].call)'
         /\ \A c \in execs : Used(c)' => ~Gapped(c)'
         /\ \A c \in execs :
              \/ \E i \in DOMAIN ring' : ring'[i].kind = "attempt" /\ ring'[i].call = c
              \/ \E u \in Threads : <<u, c>> \in pending' \/ completed'[u] = c
              \/ \E l \in lines' : l.argv = c
              \/ Gapped(c)' \/ c \in ringLost' \cup argvLost'
         /\ NoOrphanResult' /\ GapOrArgv'
  <1>1. TypeOK /\ ArgvInv /\ AttemptsAccounted /\ NoOrphanResult /\ GapOrArgv
    BY DEF IInv
  <1>2. \A c : (Used(c)' <=> Used(c)) /\ (Gapped(c)' <=> Gapped(c))
    BY <1>1, SubmitsPersist
  <1>3. \A u, c : \A b \in Nat : Captured(u, c, b) => Captured(u, c, b)'
    BY <1>1, SubmitsPersist
  <1>4. /\ UNCHANGED <<pending, completed, gaps, lines>>
        /\ ringLost \subseteq ringLost' /\ argvLost \subseteq argvLost'
        /\ \A i \in DOMAIN ring : i \in DOMAIN ring' /\ ring'[i] = ring[i] /\ i \in Nat
    BY <1>1, Stay
  <1>5. \A i \in DOMAIN ring : ring[i].kind = "attempt" =>
              /\ \A p \in pending' : p[2] # ring'[i].call
              /\ ~Gapped(ring[i].call)' /\ ~Used(ring[i].call)'
    BY <1>1, <1>2, <1>4 DEF ArgvInv, AttemptNew
  <1>6. PendingNew'
    BY <1>1, <1>2, <1>4 DEF ArgvInv, PendingNew
  <1>7. \A i \in DOMAIN ring : ring[i].kind = "result" =>
              Captured(ring[i].thread, ring[i].call, i)' /\ ~Used(ring[i].call)'
    BY <1>1, <1>2, <1>3, <1>4 DEF ArgvInv, ResultOpen
  <1>8. \A c \in execs : Used(c)' => ~Gapped(c)'
    BY <1>1, <1>2 DEF ArgvInv, UsedNotGapped
  <1>9. \A c \in execs :
              \/ \E i \in DOMAIN ring' : ring'[i].kind = "attempt" /\ ring'[i].call = c
              \/ \E u \in Threads : <<u, c>> \in pending' \/ completed'[u] = c
              \/ \E l \in lines' : l.argv = c
              \/ Gapped(c)' \/ c \in ringLost' \cup argvLost'
    BY <1>1, <1>2, <1>4 DEF AttemptsAccounted
  <1>10. NoOrphanResult' /\ GapOrArgv'
    BY <1>1, <1>2, <1>4 DEF NoOrphanResult, GapOrArgv
  <1> QED
    BY <1>5, <1>6, <1>7, <1>8, <1>9, <1>10

\* Nothing yet concerns a call that is not numbered.
LEMMA FreshIsUnknown ==
  ASSUME IInv, NEW c, c \notin execs, c # None
  PROVE  /\ \A i \in DOMAIN ring : ring[i].kind # "syscall" => ring[i].call # c
         /\ \A p \in pending : p[2] # c
         /\ ~Gapped(c) /\ ~Used(c)
         /\ \A u \in Threads : attempts[u] # c /\ completed[u] # c
  <1>1. TypeOK /\ Bounded
    BY DEF IInv
  <1>2. \A i \in DOMAIN ring : ring[i].kind # "syscall" => ring[i].call # c
    BY <1>1 DEF Bounded
  <1>3. (\A p \in pending : p[2] # c) /\ ~Gapped(c)
    BY <1>1 DEF TypeOK, Gapped
  <1>4. \A u \in Threads : attempts[u] # c /\ completed[u] # c
    BY <1>1 DEF TypeOK
  <1>5. ~Used(c)
    BY <1>1, <1>4 DEF TypeOK, Used
  <1> QED
    BY <1>2, <1>3, <1>4, <1>5

LEMMA EnterExecPreserves ==
  ASSUME IInv, NEW t \in Threads, NEW c \in Calls, EnterExec(t, c)
  PROVE  IInv'
  <1> DEFINE entered == [pc |-> "call", call |-> c, exec |-> TRUE]
  <1>1. TypeOK /\ Bounded /\ NumberCall(c) /\ CaptureAttempt(t, c) /\ SaveInflight(t, c)
        /\ thread[t].pc = "user" /\ thread' = [thread EXCEPT ![t] = entered]
        /\ execs' = execs \cup {c} /\ UNCHANGED <<missed, collector>>
    BY DEF IInv, EnterExec
  <1>2. entered \in [pc : {"user", "call", "emit", "dead"}, call : Calls \cup {None}, exec : BOOLEAN]
        /\ entered.pc = "call" /\ entered.call = c
    OBVIOUS
  <1> HIDE DEF entered
  <1>3. /\ thread' \in [Threads -> [pc : {"user", "call", "emit", "dead"},
                                   call : Calls \cup {None}, exec : BOOLEAN]]
        /\ thread'[t] = entered /\ \A u \in Threads : u # t => thread'[u] = thread[u]
    BY <1>1, <1>2 DEF TypeOK
  <1>4. /\ c \notin execs /\ calls' = c /\ calls \in Nat /\ c \in Nat /\ calls <= c /\ calls < c
        /\ calls' \in 0 .. MaxCalls /\ execs' \subseteq 1 .. calls' /\ c # None
    BY <1>1, FreshCall, ExecsAreCalls
  <1>5. /\ inflight' \in [Threads -> Calls \cup {None}]
        /\ \A u \in Threads : u # t => inflight'[u] = inflight[u]
        /\ inflight'[t] = c \/ (inflight'[t] = None /\ c \in inflightLost')
        /\ inflightLost \subseteq inflightLost' /\ inflightLost' \subseteq Calls
    BY <1>1, SaveInflightEffect
  <1>6. /\ attempts' \in [Threads -> execs' \cup {None}]
        /\ \A u \in Threads : u # t => attempts'[u] = attempts[u]
        /\ LostGrows
        /\ \/ attempts'[t] = c /\ Submitted(AttemptRecord(t, c)) /\ Fits
           \/ attempts'[t] = None /\ UNCHANGED ring /\ c \in argvLost'
    BY <1>1, CaptureEffect
  <1>7. /\ AttemptRecord(t, c).kind = "attempt" /\ AttemptRecord(t, c).thread = t
        /\ AttemptRecord(t, c).call = c /\ AttemptRecord(t, c) \in Record
    BY RecordFields
  <1>8. Submits(t)
    BY <1>1, <1>6, <1>7 DEF Submits
  <1>9. None \notin execs' /\ None <= c
    BY <1>1, <1>4, ExecsAreCalls DEF None
  <1>10. /\ \A i \in DOMAIN ring : i \in DOMAIN ring' /\ ring'[i] = ring[i] /\ i \in Nat /\ i < End
         /\ End \in Nat /\ UNCHANGED <<pending, completed, gaps, lines>>
         /\ ringLost \subseteq ringLost' /\ argvLost \subseteq argvLost'
    BY <1>1, <1>8, Stay
  \* The only new record is the attempt.
  <1>11. \A i \in DOMAIN ring' : i \in DOMAIN ring \/
           (i = End /\ ring'[i].kind = "attempt" /\ ring'[i].call = c /\ ring'[i].thread = t)
    <2>1. DOMAIN ring = 1 .. Len(ring) /\ Len(ring) \in Nat
      BY <1>1, RingType
    <2> QED
      BY <1>6, <1>7, <2>1 DEF Submitted, End
  <1>12. /\ \A i \in DOMAIN ring : ring[i].kind # "syscall" => ring[i].call # c
         /\ \A p \in pending : p[2] # c
         /\ ~Gapped(c) /\ ~Used(c)
         /\ \A u \in Threads : attempts[u] # c /\ completed[u] # c
    BY <1>4, FreshIsUnknown
  <1>13. \A d : (Used(d)' <=> Used(d)) /\ (Gapped(d)' <=> Gapped(d))
    BY <1>1, <1>8, SubmitsPersist
  <1>14. TypeOK' /\ Bounded'
    <2>1. \A u \in Threads : inflight'[u] <= calls'
      BY <1>1, <1>4, <1>5, <1>9, ThreadType DEF Bounded
    <2>2. KernelTypes
      BY <1>1, <1>3, <1>4, <1>5, <1>6, <2>1 DEF KernelTypes, TypeOK, LostGrows
    <2>3. RingGrows({"attempt"})
      BY <1>1, <1>4, <1>6, <1>7 DEF RingGrows, Fits
    <2> QED
      BY <1>1, <2>2, <2>3, KernelStepTypes
  <1>15. OpenAttempt'
    <2>1. ASSUME NEW u \in Threads, u # t, attempts'[u] # None
          PROVE  /\ \A v \in Threads : attempts'[v] = attempts'[u] => v = u
                 /\ \A i \in DOMAIN ring' : ring'[i].kind = "result" => ring'[i].call # attempts'[u]
                 /\ Captured(u, attempts[u], End)'
                 /\ ~Used(attempts[u])'
      <3>1. attempts'[u] = attempts[u] /\ attempts[u] # c
        BY <1>6, <1>12, <2>1
      <3>2. /\ \A v \in Threads : attempts[v] = attempts[u] => v = u
            /\ \A i \in DOMAIN ring : ring[i].kind = "result" => ring[i].call # attempts[u]
            /\ Captured(u, attempts[u], End) /\ ~Used(attempts[u])
        BY <2>1, <3>1 DEF IInv, ArgvInv, OpenAttempt
      <3>3. \A v \in Threads : attempts'[v] = attempts'[u] => v = u
        BY <1>6, <2>1, <3>1, <3>2
      <3>4. \A i \in DOMAIN ring' : ring'[i].kind = "result" => ring'[i].call # attempts'[u]
        BY <1>10, <1>11, <3>1, <3>2
      <3>5. \A d : Captured(u, d, End) => Captured(u, d, End)'
        BY <1>1, <1>8, SubmitsPersist
      <3>6. Captured(u, attempts[u], End)'
        BY <3>1, <3>2, <3>5
      <3> QED
        BY <1>13, <3>1, <3>2, <3>3, <3>4, <3>6
    <2>2. ASSUME attempts'[t] # None
          PROVE  /\ \A v \in Threads : attempts'[v] = attempts'[t] => v = t
                 /\ \A i \in DOMAIN ring' : ring'[i].kind = "result" => ring'[i].call # attempts'[t]
                 /\ Captured(t, attempts[t], End)'
                 /\ ~Used(attempts[t])'
      <3>1. attempts'[t] = c /\ Submitted(AttemptRecord(t, c))
        BY <1>6, <2>2
      <3>2. \A v \in Threads : attempts'[v] = attempts'[t] => v = t
        BY <1>6, <1>12, <3>1
      <3>3. \A i \in DOMAIN ring' : ring'[i].kind = "result" => ring'[i].call # attempts'[t]
        BY <1>10, <1>11, <1>12, <3>1
      <3>4. \E i \in DOMAIN ring' : i < End' /\ IsRecord(i, "attempt", t, c)'
        <4>1. Len(ring) \in Nat
          BY <1>1, RingType
        <4>2. End \in DOMAIN ring' /\ End < End' /\ ring'[End] = AttemptRecord(t, c)
          BY <3>1, <4>1 DEF Submitted, End
        <4> QED
          BY <1>7, <4>2 DEF IsRecord
      <3>5. Captured(t, attempts[t], End)'
        BY <3>1, <3>4 DEF Captured
      <3> QED
        BY <1>12, <1>13, <3>1, <3>2, <3>3, <3>5
    <2> QED
      BY <2>1, <2>2 DEF OpenAttempt
  <1>16. RecordsOnce'
    BY <1>10, <1>11, <1>12 DEF IInv, ArgvInv, RecordsOnce
  <1>17. ArgvInv'
    <2>1. AttemptNew'
      BY <1>8, <1>10, <1>11, <1>12, <1>13, SubmitsArgv DEF AttemptNew
    <2>2. PendingNew'
      BY <1>8, SubmitsArgv
    <2>3. ResultOpen'
      BY <1>8, <1>10, <1>11, SubmitsArgv DEF ResultOpen
    <2>4. UsedNotGapped'
      BY <1>1, <1>8, <1>12, <1>13, SubmitsArgv DEF UsedNotGapped
    <2> QED
      BY <1>15, <1>16, <2>1, <2>2, <2>3, <2>4 DEF ArgvInv
  <1>18. InflightAttempt'
    <2>1. ASSUME NEW u \in Threads, u # t
          PROVE  inflight'[u] \in execs' => inflight'[u] \in execs
      BY <1>1, <1>4, <1>5, <2>1, ThreadType DEF Bounded
    <2> QED
      BY <1>1, <1>2, <1>3, <1>5, <1>6, <1>9, <1>10, <2>1 DEF IInv, OrderInv, InflightAttempt
  <1>19. SyscallServed'
    <2>1. ASSUME NEW i \in DOMAIN ring', ring'[i].kind = "syscall", ring'[i].call \in execs'
          PROVE  Served(ring[i].thread, ring[i].call, i)'
      <3>1. i \in DOMAIN ring /\ ring'[i] = ring[i] /\ i \in Nat /\ i <= End
        BY <1>10, <1>11, <2>1
      <3>2. ring[i].call \in execs
        BY <1>1, <1>4, <2>1, <3>1, RingType DEF Bounded
      <3>3. Served(ring[i].thread, ring[i].call, i)
        BY <2>1, <3>1, <3>2 DEF IInv, OrderInv, SyscallServed
      <3> QED
        BY <1>1, <1>8, <3>1, <3>3, SubmitsPersist
    <2>2. ASSUME NEW u \in Threads, thread'[u].pc = "emit", inflight'[u] \in execs'
          PROVE  Served(u, inflight[u], End)'
      <3>1. u # t /\ thread'[u] = thread[u] /\ inflight'[u] = inflight[u]
        BY <1>2, <1>3, <1>5, <2>2
      <3>2. inflight[u] \in execs
        BY <1>1, <1>4, <2>2, <3>1, ThreadType DEF Bounded
      <3>3. Served(u, inflight[u], End)
        BY <2>2, <3>1, <3>2 DEF IInv, OrderInv, SyscallServed
      <3> QED
        BY <1>1, <1>8, <3>1, <3>3, SubmitsPersist
    <2> QED
      BY <2>1, <2>2 DEF SyscallServed
  <1>20. ResultClaimed'
    <2>1. \A u, d : \A a \in Nat : Claimed(u, d, a) /\ u \in Threads => Claimed(u, d, a)'
      BY <1>1, <1>3, <1>5, <1>8, SubmitsClaimed
    <2>2. ASSUME NEW i \in DOMAIN ring', ring'[i].kind = "result"
          PROVE  Claimed(ring[i].thread, ring[i].call, i)'
      <3>1. i \in DOMAIN ring /\ ring'[i] = ring[i] /\ i \in Nat /\ ring[i].thread \in Threads
        BY <1>1, <1>10, <1>11, <2>2, RingType
      <3>2. Claimed(ring[i].thread, ring[i].call, i)
        BY <2>2, <3>1 DEF IInv, OrderInv, ResultClaimed
      <3> QED
        BY <2>1, <3>1, <3>2
    <2>3. ASSUME NEW u \in Threads, completed'[u] # None
          PROVE  Claimed(u, completed[u], 0)'
      <3>1. completed'[u] = completed[u] /\ Claimed(u, completed[u], 0)
        BY <1>10, <2>3 DEF IInv, OrderInv, ResultClaimed
      <3> QED
        BY <2>1, <3>1
    <2> QED
      BY <2>2, <2>3 DEF ResultClaimed
  <1>21. AttemptsAccounted'
    <2>1. \/ c \in argvLost'
          \/ \E i \in DOMAIN ring' : ring'[i].kind = "attempt" /\ ring'[i].call = c
      <3>1. Len(ring) \in Nat
        BY <1>1, RingType
      <3> QED
        BY <1>6, <1>7, <3>1 DEF Submitted
    <2> QED
      BY <1>1, <1>8, <2>1, SubmitsArgv DEF AttemptsAccounted
  <1>22. MissingArgvHasReason'
    <2>1. \A l \in lines : l.call \in execs' => l.call \in execs
      <3>1. \A l \in lines : l.call \in Nat /\ l.call <= calls
        BY <1>1, CallsAreNat DEF TypeOK, Bounded
      <3> QED
        BY <1>1, <1>4, <3>1
    <2> QED
      BY <1>10, <1>13, <2>1 DEF IInv, MissingArgvHasReason
  <1>23. CallSaved' /\ LostEntriesAreCounted'
    BY <1>1, <1>2, <1>3, <1>5 DEF IInv, CallSaved, LostEntriesAreCounted
  <1> QED
    BY <1>8, <1>14, <1>17, <1>18, <1>19, <1>20, <1>21, <1>22, <1>23, SubmitsArgv DEF IInv, OrderInv

\* The attempt id that sys_exit finds is that of the exec it found.
LEMMA EmitResultPreserves ==
  ASSUME IInv, NEW t \in Threads, EmitResult(t)
  PROVE  IInv'
  <1> DEFINE a == attempts[t]
             Sent == inflight[t] \in execs /\ attempts[t] # None
  <1>1. /\ TypeOK /\ Bounded /\ thread[t].pc = "call" /\ inflight[t] # None
        /\ UNCHANGED <<execs, calls, inflight, inflightLost, missed, collector>>
    BY DEF IInv, EmitResult
  <1>2. /\ thread' \in [Threads -> [pc : {"user", "call", "emit", "dead"},
                                   call : Calls \cup {None}, exec : BOOLEAN]]
        /\ thread'[t].pc = "emit" /\ \A u \in Threads : u # t => thread'[u] = thread[u]
    BY <1>1 DEF TypeOK, EmitResult
  <1>3. /\ a \in execs \cup {None} /\ None \notin execs
        /\ inflight[t] \in execs => a \in {None, inflight[t]}
        /\ inflight[t] \in execs /\ a = None => inflight[t] \in argvLost
        /\ attempts \in [Threads -> execs \cup {None}]
        /\ \A c \in execs : c \in Calls /\ c <= calls
    <2>1. None \notin execs
      BY <1>1, ExecsAreCalls DEF None
    <2> QED
      BY <1>1, <2>1, ThreadType, ExecsAreCalls DEF IInv, OrderInv, InflightAttempt, TypeOK
  <1>4. /\ \A u \in Threads : u # t => attempts'[u] = attempts[u]
        /\ attempts' \in [Threads -> execs \cup {None}]
        /\ inflight[t] \in execs => attempts'[t] = None
        /\ attempts'[t] \in {None, attempts[t]}
    BY <1>3 DEF EmitResult
  <1>5. /\ LostGrows
        /\ \/ Sent /\ Submitted(ResultRecord(t, a)) /\ Fits
           \/ Sent /\ UNCHANGED ring /\ a \in ringLost' /\ a \in argvLost'
           \/ UNCHANGED ring /\ (inflight[t] \notin execs \/ a = None)
    <2>1. CASE Sent /\ SubmitResult(t, a)
      BY <1>1, <1>3, <2>1, SubmitResultEffect
    <2>2. CASE (inflight[t] \notin execs \/ a = None) /\ UNCHANGED <<ring, ringLost, argvLost>>
      BY <1>1, <2>2 DEF LostGrows, TypeOK
    <2> QED
      BY <2>1, <2>2 DEF EmitResult
  <1>6. /\ ResultRecord(t, a).kind = "result" /\ ResultRecord(t, a).thread = t
        /\ ResultRecord(t, a).call = a /\ (Sent => ResultRecord(t, a) \in Record)
    BY <1>3, RecordFields
  <1>7. Submits(t)
    BY <1>1, <1>5, <1>6 DEF Submits
  <1>8. /\ \A i \in DOMAIN ring : i \in DOMAIN ring' /\ ring'[i] = ring[i] /\ i \in Nat /\ i < End
        /\ End \in Nat /\ End' \in Nat /\ UNCHANGED <<pending, completed, gaps, lines>>
        /\ ringLost \subseteq ringLost' /\ argvLost \subseteq argvLost'
    BY <1>1, <1>7, Stay
  <1>9. DOMAIN ring = 1 .. Len(ring) /\ Len(ring) \in Nat
    BY <1>1, RingType
  \* The only new record is the result.
  <1>10. \A i \in DOMAIN ring' : i \in DOMAIN ring \/
           (Sent /\ i = End /\ ring'[i].kind = "result" /\ ring'[i].call = a /\ ring'[i].thread = t)
    BY <1>5, <1>6, <1>9 DEF Submitted, End
  <1>11. \A d : (Used(d)' <=> Used(d)) /\ (Gapped(d)' <=> Gapped(d))
    BY <1>1, <1>7, SubmitsPersist
  <1>12. TypeOK' /\ Bounded'
    <2>1. calls' \in 0 .. MaxCalls /\ calls <= calls'
      BY <1>1, ExecsAreCalls DEF TypeOK
    <2>2. KernelTypes
      BY <1>1, <1>2, <1>4, <1>5, <2>1 DEF KernelTypes, TypeOK, LostGrows, Bounded
    <2>3. RingGrows({"result"})
      BY <1>1, <1>3, <1>5, <1>6 DEF RingGrows, Fits
    <2> QED
      BY <1>1, <2>2, <2>3, KernelStepTypes
  <1>13. /\ \A u \in Threads : attempts[u] # None =>
              /\ \A v \in Threads : attempts[v] = attempts[u] => v = u
              /\ \A i \in DOMAIN ring : ring[i].kind = "result" => ring[i].call # attempts[u]
              /\ Captured(u, attempts[u], End) /\ ~Used(attempts[u])
    BY DEF IInv, ArgvInv, OpenAttempt
  <1>14. OpenAttempt'
    <2>1. ASSUME NEW u \in Threads, attempts'[u] # None
          PROVE  /\ attempts'[u] = attempts[u]
                 /\ Sent => u # t
      BY <1>4, <2>1
    <2>2. \A u, d : Captured(u, d, End) => Captured(u, d, End)'
      BY <1>1, <1>7, SubmitsPersist
    <2>3. ASSUME NEW u \in Threads, attempts'[u] # None
          PROVE  /\ \A v \in Threads : attempts'[v] = attempts'[u] => v = u
                 /\ \A i \in DOMAIN ring' : ring'[i].kind = "result" => ring'[i].call # attempts'[u]
                 /\ Captured(u, attempts[u], End)' /\ ~Used(attempts[u])'
      <3>1. attempts'[u] = attempts[u] /\ (Sent => u # t)
        BY <2>1, <2>3
      <3>2. \A v \in Threads : attempts'[v] = attempts'[u] => v = u
        BY <1>4, <1>13, <2>3, <3>1
      <3>3. \A i \in DOMAIN ring' : ring'[i].kind = "result" => ring'[i].call # attempts'[u]
        BY <1>8, <1>10, <1>13, <2>3, <3>1
      <3>4. Captured(u, attempts[u], End)' /\ ~Used(attempts[u])'
        BY <1>11, <1>13, <2>2, <2>3, <3>1
      <3> QED
        BY <3>2, <3>3, <3>4
    <2> QED
      BY <2>3 DEF OpenAttempt
  <1>15. RecordsOnce'
    BY <1>8, <1>10, <1>13 DEF IInv, ArgvInv, RecordsOnce
  <1>16. ArgvInv'
    <2>1. AttemptNew'
      BY <1>7, <1>8, <1>10, SubmitsArgv DEF AttemptNew
    <2>2. PendingNew'
      BY <1>7, SubmitsArgv
    <2>3. ResultOpen'
      <3>1. \A u, d : \A b \in Nat : Captured(u, d, b) => Captured(u, d, b)'
        BY <1>1, <1>7, SubmitsPersist
      <3>2. ASSUME NEW i \in DOMAIN ring', ring'[i].kind = "result", i \notin DOMAIN ring
            PROVE  Captured(ring[i].thread, ring[i].call, i)' /\ ~Used(ring[i].call)'
        <4>1. Sent /\ i = End /\ ring'[i].call = a /\ ring'[i].thread = t
          BY <1>10, <3>2
        <4>2. Captured(t, a, i) /\ ~Used(a)
          BY <1>13, <4>1
        <4> QED
          BY <1>8, <1>11, <3>1, <4>1, <4>2
      <3> QED
        BY <1>7, <1>8, <3>2, SubmitsArgv DEF ResultOpen
    <2>4. UsedNotGapped'
      BY <1>1, <1>7, SubmitsArgv DEF UsedNotGapped
    <2> QED
      BY <1>14, <1>15, <2>1, <2>2, <2>3, <2>4 DEF ArgvInv
  <1>17. InflightAttempt'
    BY <1>1, <1>2, <1>4, <1>8 DEF IInv, OrderInv, InflightAttempt
  <1>18. SyscallServed'
    <2>1. ASSUME NEW i \in DOMAIN ring', ring'[i].kind = "syscall", ring'[i].call \in execs'
          PROVE  Served(ring[i].thread, ring[i].call, i)'
      <3>1. i \in DOMAIN ring /\ ring'[i] = ring[i] /\ i \in Nat /\ i <= End
        BY <1>8, <1>10, <2>1
      <3>2. Served(ring[i].thread, ring[i].call, i)
        BY <1>1, <2>1, <3>1 DEF IInv, OrderInv, SyscallServed
      <3>3. \A u, d : Served(u, d, i) => Served(u, d, i)'
        BY <1>1, <1>7, <3>1, SubmitsPersist
      <3> QED
        BY <3>1, <3>2, <3>3
    <2>2. ASSUME NEW u \in Threads, u # t, thread'[u].pc = "emit", inflight'[u] \in execs'
          PROVE  Served(u, inflight[u], End)'
      <3>1. thread'[u] = thread[u] /\ inflight'[u] = inflight[u]
        BY <1>1, <1>2, <2>2
      <3>2. Served(u, inflight[u], End)
        BY <1>1, <2>2, <3>1 DEF IInv, OrderInv, SyscallServed
      <3>3. \A d : Served(u, d, End) => Served(u, d, End)'
        BY <1>1, <1>7, <2>2, SubmitsPersist
      <3> QED
        BY <3>1, <3>2, <3>3
    <2>3. ASSUME inflight'[t] \in execs'
          PROVE  Served(t, inflight[t], End)'
      <3>1. inflight'[t] = inflight[t] /\ inflight[t] \in execs
        BY <1>1, <2>3
      <3>2. CASE inflight[t] \in argvLost'
        BY <3>1, <3>2 DEF Served
      <3>3. CASE Sent /\ Submitted(ResultRecord(t, a))
        <4>1. /\ End \in DOMAIN ring' /\ End < End' /\ ring'[End] = ResultRecord(t, a)
              /\ \A k \in DOMAIN ring' : ~(End < k)
          BY <1>9, <3>3 DEF Submitted, End
        <4>2. a = inflight[t]
          BY <1>3, <3>1, <3>3
        <4>3. PICK j \in DOMAIN ring' : j = End
          BY <4>1
        <4>4. j < End' /\ Quiet(t, j, End)'
          BY <4>1, <4>3 DEF Quiet
        <4>5. IsRecord(j, "result", t, inflight[t])'
          BY <1>6, <3>1, <4>1, <4>2, <4>3 DEF IsRecord
        <4> QED
          BY <4>4, <4>5 DEF Served
      <3> QED
        BY <1>3, <1>5, <1>8, <3>1, <3>2, <3>3
    <2> QED
      BY <2>1, <2>2, <2>3 DEF SyscallServed
  <1>19. ResultClaimed'
    <2>1. \A u, d : \A b \in Nat : Claimed(u, d, b) /\ u \in Threads => Claimed(u, d, b)'
      BY <1>1, <1>2, <1>7, SubmitsClaimed
    <2>2. ASSUME NEW i \in DOMAIN ring', ring'[i].kind = "result"
          PROVE  Claimed(ring[i].thread, ring[i].call, i)'
      <3>1. CASE i \in DOMAIN ring
        <4>1. ring'[i] = ring[i] /\ i \in Nat /\ ring[i].thread \in Threads
          BY <1>1, <1>8, <3>1, RingType
        <4>2. Claimed(ring[i].thread, ring[i].call, i)
          BY <2>2, <3>1, <4>1 DEF IInv, OrderInv, ResultClaimed
        <4> QED
          BY <2>1, <4>1, <4>2
      <3>2. CASE i \notin DOMAIN ring
        <4>1. Sent /\ i = End /\ ring'[i].call = a /\ ring'[i].thread = t
          BY <1>10, <2>2, <3>2
        <4>2. inflight'[t] = a /\ thread'[t].pc = "emit"
          BY <1>1, <1>2, <1>3, <4>1
        <4>3. \A k \in DOMAIN ring' : ~(i < k)
          BY <1>5, <1>9, <4>1 DEF Submitted, End
        <4>4. Quiet(t, i, End)'
          BY <4>3 DEF Quiet
        <4> QED
          BY <4>1, <4>2, <4>4 DEF Claimed
      <3> QED
        BY <3>1, <3>2
    <2>3. ASSUME NEW u \in Threads, completed'[u] # None
          PROVE  Claimed(u, completed[u], 0)'
      <3>1. completed'[u] = completed[u] /\ Claimed(u, completed[u], 0)
        BY <1>8, <2>3 DEF IInv, OrderInv, ResultClaimed
      <3> QED
        BY <2>1, <3>1
    <2> QED
      BY <2>2, <2>3 DEF ResultClaimed
  <1>20. AttemptsAccounted'
    BY <1>1, <1>7, SubmitsArgv DEF AttemptsAccounted
  <1>21. MissingArgvHasReason'
    BY <1>1, <1>8, <1>11 DEF IInv, MissingArgvHasReason
  <1>22. CallSaved' /\ LostEntriesAreCounted'
    BY <1>1, <1>2 DEF IInv, CallSaved, LostEntriesAreCounted
  <1> QED
    BY <1>7, <1>12, <1>16, <1>17, <1>18, <1>19, <1>20, <1>21, <1>22, SubmitsArgv DEF IInv, OrderInv

LEMMA EmitSyscallPreserves ==
  ASSUME IInv, NEW t \in Threads, EmitSyscall(t)
  PROVE  IInv'
  <1> DEFINE c == inflight[t]
  <1>1. /\ TypeOK /\ Bounded /\ thread[t].pc = "emit"
        /\ UNCHANGED <<execs, calls, attempts, argvLost, inflightLost, missed, collector>>
    BY DEF IInv, EmitSyscall
  <1>2. /\ thread' \in [Threads -> [pc : {"user", "call", "emit", "dead"},
                                   call : Calls \cup {None}, exec : BOOLEAN]]
        /\ thread'[t].pc = "user" /\ \A u \in Threads : u # t => thread'[u] = thread[u]
    BY <1>1 DEF TypeOK, EmitSyscall, User
  <1>3. c \in Calls /\ c \in Nat /\ c <= calls /\ calls \in Nat /\ None \notin execs
    <2>1. None \notin execs
      BY <1>1, ExecsAreCalls DEF None
    <2> QED
      BY <1>1, <2>1, ThreadType, ExecsAreCalls DEF IInv, OrderInv, InflightAttempt, Bounded
  <1>4. /\ inflight' \in [Threads -> Calls \cup {None}]
        /\ inflight'[t] = None /\ \A u \in Threads : u # t => inflight'[u] = inflight[u]
    BY <1>1 DEF TypeOK, EmitSyscall
  <1>5. /\ LostGrows
        /\ \/ Submitted(SyscallRecord(t, c)) /\ Fits
           \/ UNCHANGED ring /\ c \in ringLost'
    BY <1>1, <1>3, EmitSyscallEffect
  <1>6. /\ SyscallRecord(t, c).kind = "syscall" /\ SyscallRecord(t, c).thread = t
        /\ SyscallRecord(t, c).call = c /\ SyscallRecord(t, c) \in Record
    BY <1>3, RecordFields
  <1>7. Submits(t)
    BY <1>1, <1>5, <1>6 DEF Submits
  <1>8. /\ \A i \in DOMAIN ring : i \in DOMAIN ring' /\ ring'[i] = ring[i] /\ i \in Nat /\ i < End
        /\ End \in Nat /\ End' \in Nat /\ UNCHANGED <<pending, completed, gaps, lines>>
        /\ ringLost \subseteq ringLost' /\ argvLost \subseteq argvLost'
    BY <1>1, <1>7, Stay
  <1>9. DOMAIN ring = 1 .. Len(ring) /\ Len(ring) \in Nat
    BY <1>1, RingType
  \* The only new record is the Syscall record.
  <1>10. \A i \in DOMAIN ring' : i \in DOMAIN ring \/
           (i = End /\ ring'[i].kind = "syscall" /\ ring'[i].call = c /\ ring'[i].thread = t)
    BY <1>5, <1>6, <1>9 DEF Submitted, End
  <1>11. \A d : (Used(d)' <=> Used(d)) /\ (Gapped(d)' <=> Gapped(d))
    BY <1>1, <1>7, SubmitsPersist
  <1>12. TypeOK' /\ Bounded'
    <2>1. calls' \in 0 .. MaxCalls /\ calls <= calls' /\ None <= calls'
      BY <1>1, ExecsAreCalls DEF TypeOK, None
    <2>2. KernelTypes
      BY <1>1, <1>2, <1>4, <1>5, <2>1 DEF KernelTypes, TypeOK, LostGrows, Bounded
    <2>3. RingGrows({"syscall"})
      BY <1>1, <1>3, <1>5, <1>6 DEF RingGrows, Fits
    <2> QED
      BY <1>1, <2>2, <2>3, KernelStepTypes
  <1>13. OpenAttempt'
    <2>1. \A u, d : Captured(u, d, End) => Captured(u, d, End)'
      BY <1>1, <1>7, SubmitsPersist
    <2> QED
      BY <1>1, <1>8, <1>10, <1>11, <2>1 DEF IInv, ArgvInv, OpenAttempt
  <1>14. RecordsOnce'
    BY <1>8, <1>10 DEF IInv, ArgvInv, RecordsOnce
  <1>15. ArgvInv'
    <2>1. AttemptNew'
      BY <1>7, <1>8, <1>10, SubmitsArgv DEF AttemptNew
    <2>2. PendingNew'
      BY <1>7, SubmitsArgv
    <2>3. ResultOpen'
      BY <1>7, <1>8, <1>10, SubmitsArgv DEF ResultOpen
    <2>4. UsedNotGapped'
      BY <1>1, <1>7, SubmitsArgv DEF UsedNotGapped
    <2> QED
      BY <1>13, <1>14, <2>1, <2>2, <2>3, <2>4 DEF ArgvInv
  <1>16. InflightAttempt'
    BY <1>1, <1>2, <1>3, <1>4, <1>8 DEF IInv, OrderInv, InflightAttempt
  <1>17. SyscallServed'
    <2>1. ASSUME NEW i \in DOMAIN ring', ring'[i].kind = "syscall", ring'[i].call \in execs'
          PROVE  Served(ring[i].thread, ring[i].call, i)'
      <3>1. i \in Nat /\ i <= End /\ Served(ring'[i].thread, ring'[i].call, i)
        <4>1. CASE i \in DOMAIN ring
          BY <1>1, <1>8, <2>1, <4>1 DEF IInv, OrderInv, SyscallServed
        <4>2. CASE i \notin DOMAIN ring
          <5>1. i = End /\ ring'[i].call = c /\ ring'[i].thread = t
            BY <1>10, <4>2
          <5> QED
            BY <1>1, <1>8, <2>1, <5>1 DEF IInv, OrderInv, SyscallServed
        <4> QED
          BY <4>1, <4>2
      <3>2. \A u, d : Served(u, d, i) => Served(u, d, i)'
        BY <1>1, <1>7, <3>1, SubmitsPersist
      <3> QED
        BY <3>1, <3>2
    <2>2. ASSUME NEW u \in Threads, thread'[u].pc = "emit", inflight'[u] \in execs'
          PROVE  Served(u, inflight[u], End)'
      <3>1. u # t /\ thread'[u] = thread[u] /\ inflight'[u] = inflight[u]
        BY <1>2, <1>4, <2>2
      <3>2. Served(u, inflight[u], End)
        BY <1>1, <2>2, <3>1 DEF IInv, OrderInv, SyscallServed
      <3>3. \A d : Served(u, d, End) => Served(u, d, End)'
        BY <1>1, <1>7, <3>1, SubmitsPersist
      <3> QED
        BY <3>1, <3>2, <3>3
    <2> QED
      BY <2>1, <2>2 DEF SyscallServed
  <1>18. ResultClaimed'
    \* A result that waited for the record of t has it now, or it was counted as lost.
    <2>1. ASSUME NEW u \in Threads, NEW d, NEW b \in Nat, b < End, Claimed(u, d, b)
          PROVE  Claimed(u, d, b)'
      <3>1. CASE u = t /\ c = d /\ Quiet(t, b, End)
        <4>1. CASE UNCHANGED ring /\ c \in ringLost'
          BY <3>1, <4>1 DEF Claimed
        <4>2. CASE Submitted(SyscallRecord(t, c))
          <5>1. End \in DOMAIN ring' /\ ring'[End] = SyscallRecord(t, c)
            BY <1>9, <4>2 DEF Submitted, End
          <5>2. PICK i \in DOMAIN ring' : i = End
            BY <5>1
          <5>3. IsRecord(i, "syscall", t, d)'
            BY <1>6, <3>1, <5>1, <5>2 DEF IsRecord
          <5>4. i \in Nat /\ i <= End /\ Quiet(t, b, i)
            BY <1>8, <3>1, <5>2
          <5>5. Quiet(t, b, i)'
            BY <1>1, <1>7, <5>4, SubmitsQuiet
          <5> QED
            BY <2>1, <3>1, <5>2, <5>3, <5>5 DEF Claimed
        <4> QED
          BY <1>5, <4>1, <4>2
      <3>2. CASE ~(u = t /\ c = d /\ Quiet(t, b, End))
        BY <1>1, <1>2, <1>4, <1>7, <2>1, <3>2, SubmitsClaimed
      <3> QED
        BY <3>1, <3>2
    <2>2. ASSUME NEW i \in DOMAIN ring', ring'[i].kind = "result"
          PROVE  Claimed(ring[i].thread, ring[i].call, i)'
      <3>1. i \in DOMAIN ring /\ ring'[i] = ring[i] /\ i \in Nat /\ i < End /\ ring[i].thread \in Threads
        BY <1>1, <1>8, <1>10, <2>2, RingType
      <3>2. Claimed(ring[i].thread, ring[i].call, i)
        BY <2>2, <3>1 DEF IInv, OrderInv, ResultClaimed
      <3> QED
        BY <2>1, <3>1, <3>2
    <2>3. ASSUME NEW u \in Threads, completed'[u] # None
          PROVE  Claimed(u, completed[u], 0)'
      <3>1. completed'[u] = completed[u] /\ Claimed(u, completed[u], 0) /\ 0 < End
        BY <1>8, <1>9, <2>3 DEF IInv, OrderInv, ResultClaimed, End
      <3> QED
        BY <2>1, <3>1
    <2> QED
      BY <2>2, <2>3 DEF ResultClaimed
  <1>19. AttemptsAccounted'
    BY <1>1, <1>7, SubmitsArgv DEF AttemptsAccounted
  <1>20. MissingArgvHasReason'
    BY <1>1, <1>8, <1>11 DEF IInv, MissingArgvHasReason
  <1>21. CallSaved' /\ LostEntriesAreCounted'
    BY <1>1, <1>2, <1>4 DEF IInv, CallSaved, LostEntriesAreCounted
  <1> QED
    BY <1>7, <1>12, <1>15, <1>16, <1>17, <1>18, <1>19, <1>20, <1>21, SubmitsArgv DEF IInv, OrderInv

-----------------------------------------------------------------------------
(* The collector takes the head of the ring: every record moves up by one.  *)

Consumes ==
  /\ Taken /\ Fits
  /\ UNCHANGED <<thread, execs, calls, inflight, attempts, ringLost, argvLost, inflightLost, missed>>
  /\ gaps \subseteq gaps'

\* The head is a result or a Syscall record of u.
HeadOf(u) == ring[1].thread = u /\ ring[1].kind # "attempt"

LEMMA Shift ==
  ASSUME TypeOK, Consumes
  PROVE  /\ End' \in Nat /\ End' >= 1 /\ End = End' + 1 /\ 1 \in DOMAIN ring
         /\ \A i \in DOMAIN ring' : i \in Nat /\ i >= 1 /\ i < End'
              /\ i + 1 \in DOMAIN ring /\ ring'[i] = ring[i + 1]
         /\ \A i \in DOMAIN ring : i \in Nat /\ (i = 1 \/ (i - 1 \in DOMAIN ring' /\ i - 1 >= 1))
         /\ UNCHANGED <<thread, execs, calls, inflight, attempts, ringLost, argvLost,
                        inflightLost, missed>>
         /\ \A c : (Gapped(c) => Gapped(c)') /\ (GivenUp(c) => GivenUp(c)')
  <1>1. /\ DOMAIN ring = 1 .. Len(ring) /\ Len(ring) \in Nat /\ 1 \in DOMAIN ring
        /\ DOMAIN ring' = 1 .. (Len(ring) - 1) /\ Len(ring') = Len(ring) - 1
        /\ \A i \in DOMAIN ring' : i + 1 \in DOMAIN ring /\ ring'[i] = ring[i + 1]
    BY RingType DEF Consumes, Taken
  <1>2. End' \in Nat /\ End' >= 1 /\ End = End' + 1
    BY <1>1 DEF End
  <1>3. \A i \in DOMAIN ring' : i \in Nat /\ i >= 1 /\ i < End'
    BY <1>1 DEF End
  <1>4. \A i \in DOMAIN ring : i \in Nat /\ (i = 1 \/ (i - 1 \in DOMAIN ring' /\ i - 1 >= 1))
    BY <1>1
  <1>5. \A c : (Gapped(c) => Gapped(c)') /\ (GivenUp(c) => GivenUp(c)')
    BY DEF Consumes, Gapped, GivenUp
  <1> QED
    BY <1>1, <1>2, <1>3, <1>4, <1>5 DEF Consumes

LEMMA ShiftQuiet ==
  ASSUME TypeOK, Consumes, NEW u, NEW a \in Nat, NEW b \in Nat,
         Quiet(u, a, b + 1) \/ Quiet(u, a + 1, b + 1)
  PROVE  Quiet(u, a, b)'
  <1>1. ASSUME NEW k \in DOMAIN ring', a < k, k < b
        PROVE  ring'[k].thread # u \/ ring'[k].kind = "attempt"
    <2>1. k \in Nat /\ k + 1 \in DOMAIN ring /\ ring'[k] = ring[k + 1]
      BY Shift
    <2>2. a < k + 1 /\ a + 1 < k + 1 /\ k + 1 < b + 1
      BY <1>1, <2>1
    <2> QED
      BY <2>1, <2>2 DEF Quiet
  <1> QED
    BY <1>1 DEF Quiet

LEMMA ShiftQuietEnd ==
  ASSUME TypeOK, Consumes, NEW u, NEW a \in Nat, Quiet(u, a, End) \/ Quiet(u, a + 1, End)
  PROVE  Quiet(u, a, End)'
  <1>1. ASSUME NEW k \in DOMAIN ring', a < k
        PROVE  ring'[k].thread # u \/ ring'[k].kind = "attempt"
    <2>1. k \in Nat /\ k + 1 \in DOMAIN ring /\ ring'[k] = ring[k + 1] /\ k + 1 < End
      BY Shift
    <2>2. a < k + 1 /\ a + 1 < k + 1
      BY <1>1, <2>1
    <2> QED
      BY <2>1, <2>2 DEF Quiet
  <1> QED
    BY <1>1 DEF Quiet

\* What follows a record still does; what follows completed[u] does unless the head is of u.
LEMMA ShiftClaimed ==
  ASSUME TypeOK, Consumes, NEW u, NEW c, NEW a \in Nat,
         Claimed(u, c, a + 1) \/ (Claimed(u, c, a) /\ a = 0 /\ ~HeadOf(u))
  PROVE  Claimed(u, c, a)'
  <1>1. CASE c \in ringLost
    BY <1>1, Shift DEF Claimed
  <1>2. CASE thread[u].pc = "emit" /\ inflight[u] = c /\ (Quiet(u, a, End) \/ Quiet(u, a + 1, End))
    <2>1. Quiet(u, a, End)'
      BY <1>2, ShiftQuietEnd
    <2> QED
      BY <1>2, <2>1, Shift DEF Claimed
  <1>3. ASSUME NEW i \in DOMAIN ring, IsRecord(i, "syscall", u, c),
               \/ a + 1 < i /\ Quiet(u, a + 1, i)
               \/ a < i /\ a = 0 /\ ~HeadOf(u) /\ Quiet(u, a, i)
        PROVE  Claimed(u, c, a)'
    <2>1. i # 1
      BY <1>3 DEF IsRecord, HeadOf
    <2>2. PICK j \in DOMAIN ring' : j = i - 1 /\ j >= 1
      BY <2>1, Shift
    <2>3. j \in Nat /\ i = j + 1 /\ ring'[j] = ring[i] /\ a < j
      <3>1. j \in Nat /\ i \in Nat /\ ring'[j] = ring[j + 1]
        BY Shift
      <3> QED
        BY <1>3, <2>2, <3>1
    <2>4. Quiet(u, a, j)'
      BY <1>3, <2>3, ShiftQuiet
    <2>5. IsRecord(j, "syscall", u, c)'
      BY <1>3, <2>3 DEF IsRecord
    <2> QED
      BY <2>3, <2>4, <2>5 DEF Claimed
  <1> QED
    BY <1>1, <1>2, <1>3 DEF Claimed

\* The head serves the record it precedes through completed, or its attempt is reported.
ServesHead ==
  /\ \A u \in Threads : ~HeadOf(u) => completed'[u] = completed[u]
  /\ \A u \in Threads : \A c : IsRecord(1, "result", u, c) => completed'[u] = c \/ Gapped(c)'

LEMMA ShiftServed ==
  ASSUME TypeOK, Consumes, ServesHead, NEW u \in Threads, NEW c, NEW b \in Nat, b >= 1,
         Served(u, c, b + 1)
  PROVE  Served(u, c, b)'
  <1>1. CASE c \in argvLost \/ Gapped(c)
    BY <1>1, Shift DEF Served
  <1>2. CASE completed[u] = c /\ Quiet(u, 0, b + 1)
    <2>1. ~HeadOf(u)
      <3>1. 0 < 1 /\ 1 < b + 1 /\ 1 \in DOMAIN ring
        BY Shift
      <3> QED
        BY <1>2, <3>1 DEF Quiet, HeadOf
    <2>2. Quiet(u, 0, b)'
      BY <1>2, ShiftQuiet
    <2> QED
      BY <1>2, <2>1, <2>2 DEF ServesHead, Served
  <1>3. ASSUME NEW j \in DOMAIN ring, j < b + 1, IsRecord(j, "result", u, c), Quiet(u, j, b + 1)
        PROVE  Served(u, c, b)'
    <2>1. CASE j = 1
      <3>1. Quiet(u, 0, b)'
        BY <1>3, <2>1, ShiftQuiet
      <3>2. completed'[u] = c \/ Gapped(c)'
        BY <1>3, <2>1 DEF IsRecord, ServesHead
      <3> QED
        BY <3>1, <3>2 DEF Served
    <2>2. CASE j # 1
      <3>1. PICK k \in DOMAIN ring' : k = j - 1 /\ k >= 1
        BY <2>2, Shift
      <3>2. k \in Nat /\ j = k + 1 /\ ring'[k] = ring[j] /\ k < b
        <4>1. j \in Nat /\ k \in Nat /\ ring'[k] = ring[k + 1]
          BY Shift
        <4> QED
          BY <1>3, <3>1, <4>1
      <3>3. Quiet(u, k, b)'
        BY <1>3, <3>2, ShiftQuiet
      <3>4. IsRecord(k, "result", u, c)'
        BY <1>3, <3>2 DEF IsRecord
      <3> QED
        BY <3>2, <3>3, <3>4 DEF Served
    <2> QED
      BY <2>1, <2>2
  <1> QED
    BY <1>1, <1>2, <1>3 DEF Served

\* Where completed[u] comes from.
CompletedFrom ==
  \A u \in Threads : completed'[u] # None =>
    \/ completed'[u] = completed[u] /\ ~(HeadOf(u) /\ ring[1].kind = "syscall")
    \/ HeadOf(u) /\ ring[1].kind = "result" /\ completed'[u] = ring[1].call

LEMMA ConsumesOrder ==
  ASSUME IInv, Consumes, ServesHead, CompletedFrom
  PROVE  OrderInv'
  <1>1. TypeOK /\ InflightAttempt /\ SyscallServed /\ ResultClaimed
    BY DEF IInv, OrderInv
  <1>2. UNCHANGED <<thread, execs, inflight, attempts, argvLost, ringLost>>
    BY <1>1, Shift
  <1>3. InflightAttempt'
    BY <1>1, <1>2 DEF InflightAttempt
  <1>4. \A u \in Threads : \A c : \A b \in Nat : b >= 1 /\ Served(u, c, b + 1) => Served(u, c, b)'
    BY <1>1, ShiftServed
  <1>5. SyscallServed'
    <2>1. ASSUME NEW i \in DOMAIN ring', ring'[i].kind = "syscall", ring'[i].call \in execs'
          PROVE  Served(ring[i].thread, ring[i].call, i)'
      <3>1. /\ i \in Nat /\ i >= 1 /\ i + 1 \in DOMAIN ring /\ ring'[i] = ring[i + 1]
            /\ ring[i + 1].thread \in Threads
        BY <1>1, Shift, RingType
      <3>2. Served(ring[i + 1].thread, ring[i + 1].call, i + 1)
        BY <1>1, <1>2, <2>1, <3>1 DEF SyscallServed
      <3> QED
        BY <1>4, <3>1, <3>2
    <2>2. ASSUME NEW u \in Threads, thread'[u].pc = "emit", inflight'[u] \in execs'
          PROVE  Served(u, inflight[u], End)'
      <3>1. End' \in Nat /\ End' >= 1 /\ End = End' + 1
        BY <1>1, Shift
      <3>2. PICK b \in Nat : b = End'
        BY <3>1
      <3>3. Served(u, inflight[u], b + 1)
        BY <1>1, <1>2, <2>2, <3>1, <3>2 DEF SyscallServed
      <3>4. Served(u, inflight[u], b)'
        BY <1>2, <1>4, <3>1, <3>2, <3>3
      <3> QED
        BY <3>2, <3>4
    <2> QED
      BY <2>1, <2>2 DEF SyscallServed
  <1>6. ResultClaimed'
    <2>1. ASSUME NEW i \in DOMAIN ring', ring'[i].kind = "result"
          PROVE  Claimed(ring[i].thread, ring[i].call, i)'
      <3>1. i \in Nat /\ i + 1 \in DOMAIN ring /\ ring'[i] = ring[i + 1]
        BY <1>1, Shift
      <3>2. Claimed(ring[i + 1].thread, ring[i + 1].call, i + 1)
        BY <1>1, <2>1, <3>1 DEF ResultClaimed
      <3>3. \A u, c : Claimed(u, c, i + 1) => Claimed(u, c, i)'
        BY <1>1, <3>1, ShiftClaimed
      <3> QED
        BY <3>1, <3>2, <3>3
    <2>2. ASSUME NEW u \in Threads, completed'[u] # None
          PROVE  Claimed(u, completed[u], 0)'
      <3>1. \A c : Claimed(u, c, 0 + 1) \/ (Claimed(u, c, 0) /\ ~HeadOf(u)) => Claimed(u, c, 0)'
        BY <1>1, ShiftClaimed
      <3>2. 1 \in DOMAIN ring /\ 0 + 1 = 1
        BY <1>1, Shift
      <3>3. CASE completed'[u] = completed[u] /\ ~HeadOf(u)
        BY <1>1, <2>2, <3>1, <3>3 DEF ResultClaimed
      <3>4. CASE HeadOf(u) /\ ring[1].kind = "result" /\ completed'[u] = ring[1].call
        <4>1. Claimed(u, ring[1].call, 1)
          BY <1>1, <3>2, <3>4 DEF ResultClaimed, HeadOf
        <4> QED
          BY <3>1, <3>2, <3>4, <4>1
      \* A result that was refused leaves completed as it was: its record was lost.
      <3>5. CASE completed'[u] = completed[u] /\ HeadOf(u) /\ ring[1].kind # "syscall"
        <4>1. Claimed(u, completed[u], 0)
          BY <1>1, <2>2, <3>5 DEF ResultClaimed
        <4>2. \A b \in Nat : b > 1 => ~Quiet(u, 0, b)
          BY <3>2, <3>5 DEF Quiet, HeadOf
        <4>3. End \in Nat /\ End > 1
          BY <1>1, Shift
        <4>4. \A i \in DOMAIN ring : IsRecord(i, "syscall", u, completed[u]) => i \in Nat /\ i > 1
          BY <1>1, <3>5, RingType DEF IsRecord
        <4>5. completed[u] \in ringLost
          BY <4>1, <4>2, <4>3, <4>4 DEF Claimed
        <4> QED
          BY <1>2, <3>5, <4>5 DEF Claimed
      <3> QED
        BY <2>2, <3>3, <3>4, <3>5 DEF CompletedFrom
    <2> QED
      BY <2>1, <2>2 DEF ResultClaimed
  <1> QED
    BY <1>3, <1>5, <1>6 DEF OrderInv

\* No attempt is forgotten but the one whose result is at the head.
KeepsAttempts ==
  /\ \A p \in pending : p \in pending' \/ (ring[1].kind = "result" /\ p[2] = ring[1].call)
  /\ \A u \in Threads : \A c :
       IsRecord(1, "attempt", u, c) => <<u, c>> \in pending' \/ GivenUp(c)'

LEMMA ShiftCaptured ==
  ASSUME TypeOK, Consumes, KeepsAttempts, NEW u \in Threads, NEW c,
         ring[1].kind = "result" => ring[1].call # c
  PROVE  /\ \A b \in Nat : Captured(u, c, b + 1) => Captured(u, c, b)'
         /\ Captured(u, c, End) => Captured(u, c, End)'
  <1>1. GivenUp(c) \/ <<u, c>> \in pending => GivenUp(c)' \/ <<u, c>> \in pending'
    BY Shift DEF KeepsAttempts
  <1>2. ASSUME NEW i \in DOMAIN ring, IsRecord(i, "attempt", u, c)
        PROVE  \/ GivenUp(c)' \/ <<u, c>> \in pending'
               \/ \E j \in DOMAIN ring' : j \in Nat /\ i = j + 1 /\ IsRecord(j, "attempt", u, c)'
    <2>1. CASE i = 1
      BY <1>2, <2>1 DEF KeepsAttempts
    <2>2. CASE i # 1
      <3>1. PICK j \in DOMAIN ring' : j = i - 1
        BY <2>2, Shift
      <3>2. j \in Nat /\ i = j + 1 /\ ring'[j] = ring[i]
        <4>1. i \in Nat /\ j \in Nat /\ ring'[j] = ring[j + 1]
          BY Shift
        <4> QED
          BY <3>1, <4>1
      <3> QED
        BY <1>2, <3>2 DEF IsRecord
    <2> QED
      BY <2>1, <2>2
  <1>3. ASSUME NEW b \in Nat, Captured(u, c, b + 1)
        PROVE  Captured(u, c, b)'
    <2>1. CASE GivenUp(c) \/ <<u, c>> \in pending
      BY <1>1, <2>1 DEF Captured
    <2>2. ASSUME NEW i \in DOMAIN ring, i < b + 1, IsRecord(i, "attempt", u, c)
          PROVE  Captured(u, c, b)'
      <3>1. \A j \in Nat : i = j + 1 => j < b
        BY <2>2
      <3> QED
        BY <1>2, <2>2, <3>1 DEF Captured
    <2> QED
      BY <1>3, <2>1, <2>2 DEF Captured
  <1>4. ASSUME Captured(u, c, End)
        PROVE  Captured(u, c, End)'
    <2>1. CASE GivenUp(c) \/ <<u, c>> \in pending
      BY <1>1, <2>1 DEF Captured
    <2>2. ASSUME NEW i \in DOMAIN ring, IsRecord(i, "attempt", u, c)
          PROVE  Captured(u, c, End)'
      <3>1. \A j \in DOMAIN ring' : j < End'
        BY Shift
      <3> QED
        BY <1>2, <2>2, <3>1 DEF Captured
    <2> QED
      BY <1>4, <2>1, <2>2 DEF Captured
  <1> QED
    BY <1>3, <1>4

LEMMA ConsumesTypes ==
  ASSUME IInv, Consumes, IsFiniteSet(pending'), Cardinality(pending') <= PendingSlots,
         pending' \subseteq Threads \X execs,
         completed' \in [Threads -> execs \cup {None}],
         gaps' \subseteq [reason : {"capacity", "timeout", "missing"}, call : execs],
         lines' \subseteq [call : Calls, argv : execs \cup {None}],
         \A l \in lines' : l.call <= calls
  PROVE  TypeOK' /\ Bounded' /\ RecordsOnce' /\ CallSaved' /\ LostEntriesAreCounted'
  <1>1. /\ UNCHANGED <<thread, execs, calls, inflight, attempts, ringLost, argvLost,
                       inflightLost, missed>>
        /\ \A i \in DOMAIN ring' : i \in Nat /\ i + 1 \in DOMAIN ring /\ ring'[i] = ring[i + 1]
    BY Shift DEF IInv
  <1>2. TypeOK'
    BY <1>1 DEF IInv, TypeOK, Consumes, Fits
  <1>3. Bounded'
    BY <1>1 DEF IInv, Bounded
  <1>4. RecordsOnce'
    <2>1. ASSUME NEW i \in DOMAIN ring', NEW j \in DOMAIN ring', ring'[i].kind = ring'[j].kind,
                 ring'[i].kind # "syscall", ring'[i].call = ring'[j].call
          PROVE  i = j
      <3>1. i + 1 = j + 1
        BY <1>1, <2>1 DEF IInv, ArgvInv, RecordsOnce
      <3> QED
        BY <1>1, <3>1
    <2> QED
      BY <2>1 DEF RecordsOnce
  <1>5. CallSaved' /\ LostEntriesAreCounted'
    BY <1>1 DEF IInv, CallSaved, LostEntriesAreCounted
  <1> QED
    BY <1>2, <1>3, <1>4, <1>5

LEMMA AcceptAttemptPreserves ==
  ASSUME IInv, Consumes, NEW r, ring[1] = r, r.kind = "attempt", AcceptAttempt(r)
  PROVE  IInv'
  <1> DEFINE t == r.thread
             c == r.call
  <1>1. TypeOK /\ Bounded /\ ArgvInv
    BY DEF IInv
  <1>2. t \in Threads /\ c \in execs /\ 1 \in DOMAIN ring /\ c # None
    <2>1. 1 \in DOMAIN ring
      BY <1>1, Shift
    <2>2. c \in execs
      BY <1>1, <2>1 DEF Bounded
    <2>3. c # None
      BY <1>1, <2>2, ExecsAreCalls DEF None
    <2> QED
      BY <1>1, <2>1, <2>2, <2>3, RingType
  <1>3. /\ UNCHANGED <<execs, attempts, ringLost, argvLost, completed, lines>>
        /\ \A i \in DOMAIN ring' : i \in Nat /\ i >= 1 /\ i + 1 \in DOMAIN ring /\ ring'[i] = ring[i + 1]
        /\ \A d : Gapped(d) => Gapped(d)'
    BY <1>1, Shift DEF AcceptAttempt
  <1>4. (\A p \in pending : p[2] # c) /\ ~Gapped(c) /\ ~Used(c)
    BY <1>1, <1>2 DEF ArgvInv, AttemptNew
  <1>5. \/ /\ Cardinality(pending) < PendingSlots
           /\ pending' = pending \cup {<<t, c>>}
           /\ UNCHANGED gaps
        \/ /\ gaps' = gaps \cup {[reason |-> "capacity", call |-> c]}
           /\ UNCHANGED pending
    BY DEF AcceptAttempt, Gap
  <1>6. \A p \in pending' : p \in pending \/ (p = <<t, c>> /\ UNCHANGED gaps)
    BY <1>5
  <1>7. \A d : Gapped(d)' => Gapped(d) \/ (d = c /\ UNCHANGED pending)
    BY <1>5 DEF Gapped
  <1>8. \A d : Used(d)' <=> Used(d)
    BY <1>3 DEF Used
  \* The other records are about other execs.
  <1>9. \A i \in DOMAIN ring' : ring'[i].kind = "attempt" => ring'[i].call # c
    BY <1>1, <1>2, <1>3 DEF ArgvInv, RecordsOnce
  <1>10. TypeOK' /\ Bounded' /\ RecordsOnce' /\ CallSaved' /\ LostEntriesAreCounted'
    <2>1. IsFiniteSet(pending') /\ Cardinality(pending') <= PendingSlots
      <3>1. IsFiniteSet(pending) /\ Cardinality(pending) \in Nat /\ Cardinality(pending) <= PendingSlots
        BY <1>1, FS_CardinalityType DEF Bounded, TypeOK
      <3>2. CASE UNCHANGED pending
        BY <3>1, <3>2
      <3>3. CASE Cardinality(pending) < PendingSlots /\ pending' = pending \cup {<<t, c>>}
        <4>1. <<t, c>> \notin pending
          BY <1>4
        <4>2. IsFiniteSet(pending') /\ Cardinality(pending') = Cardinality(pending) + 1
          BY <3>1, <3>3, <4>1, FS_AddElement
        <4> QED
          BY <3>1, <3>3, <4>2, Limits
      <3> QED
        BY <1>5, <3>2, <3>3
    <2>2. pending' \subseteq Threads \X execs
      BY <1>1, <1>2, <1>6 DEF TypeOK
    <2>3. gaps' \subseteq [reason : {"capacity", "timeout", "missing"}, call : execs]
      BY <1>1, <1>2, <1>5 DEF TypeOK
    <2>4. /\ completed' \in [Threads -> execs \cup {None}]
          /\ lines' \subseteq [call : Calls, argv : execs \cup {None}]
          /\ \A l \in lines' : l.call <= calls
      BY <1>1, <1>3 DEF TypeOK, Bounded
    <2> QED
      BY <2>1, <2>2, <2>3, <2>4, ConsumesTypes
  <1>11. KeepsAttempts
    <2> DEFINE gap == [reason |-> "capacity", call |-> c]
    <2>1. gap.call = c /\ gap.reason = "capacity"
      OBVIOUS
    <2>2. <<t, c>> \in pending' \/ gap \in gaps'
      BY <1>5
    <2> HIDE DEF gap
    <2>3. \A d : d = c => <<t, d>> \in pending' \/ GivenUp(d)'
      BY <2>1, <2>2 DEF GivenUp
    <2> QED
      BY <1>5, <2>3 DEF KeepsAttempts, IsRecord
  <1>12. /\ \A u \in Threads : \A d : \A b \in Nat : Captured(u, d, b + 1) => Captured(u, d, b)'
         /\ \A u \in Threads : \A d : Captured(u, d, End) => Captured(u, d, End)'
    BY <1>1, <1>11, ShiftCaptured
  <1>13. ArgvInv'
    <2>1. OpenAttempt'
      BY <1>1, <1>3, <1>8, <1>12 DEF ArgvInv, OpenAttempt
    <2>2. AttemptNew'
      <3>1. ASSUME NEW i \in DOMAIN ring', ring'[i].kind = "attempt"
            PROVE  /\ \A p \in pending' : p[2] # ring'[i].call
                   /\ ~Gapped(ring[i].call)' /\ ~Used(ring[i].call)'
        <4>1. /\ \A p \in pending : p[2] # ring[i + 1].call
              /\ ~Gapped(ring[i + 1].call) /\ ~Used(ring[i + 1].call)
          BY <1>1, <1>3, <3>1 DEF ArgvInv, AttemptNew
        <4> QED
          BY <1>3, <1>6, <1>7, <1>8, <1>9, <3>1, <4>1
      <3> QED
        BY <3>1 DEF AttemptNew
    <2>3. PendingNew'
      <3>1. ASSUME NEW p \in pending'
            PROVE  /\ \A q \in pending' : q[2] = p[2] => q = p
                   /\ ~Gapped(p[2])' /\ ~Used(p[2])'
        <4>1. CASE p \in pending
          <5>1. p[2] # c /\ ~Gapped(p[2]) /\ ~Used(p[2]) /\ \A q \in pending : q[2] = p[2] => q = p
            BY <1>1, <1>4, <4>1 DEF ArgvInv, PendingNew
          <5> QED
            BY <1>6, <1>7, <1>8, <5>1
        <4>2. CASE p = <<t, c>> /\ UNCHANGED gaps
          <5>1. p[2] = c /\ (Gapped(c)' <=> Gapped(c))
            BY <4>2 DEF Gapped
          <5> QED
            BY <1>4, <1>6, <1>8, <4>2, <5>1
        <4> QED
          BY <1>6, <4>1, <4>2
      <3> QED
        BY <3>1 DEF PendingNew
    <2>4. ResultOpen'
      <3>1. ASSUME NEW i \in DOMAIN ring', ring'[i].kind = "result"
            PROVE  Captured(ring[i].thread, ring[i].call, i)' /\ ~Used(ring[i].call)'
        <4>1. /\ Captured(ring[i + 1].thread, ring[i + 1].call, i + 1) /\ ~Used(ring[i + 1].call)
              /\ ring[i + 1].thread \in Threads
          BY <1>1, <1>3, <3>1, RingType DEF ArgvInv, ResultOpen
        <4> QED
          BY <1>3, <1>8, <1>12, <4>1
      <3> QED
        BY <3>1 DEF ResultOpen
    <2>5. UsedNotGapped'
      BY <1>1, <1>3, <1>4, <1>7, <1>8 DEF ArgvInv, UsedNotGapped
    <2> QED
      BY <1>10, <2>1, <2>2, <2>3, <2>4, <2>5 DEF ArgvInv
  <1>14. OrderInv'
    <2>1. ServesHead
      BY <1>3 DEF ServesHead, IsRecord
    <2>2. CompletedFrom
      BY <1>3 DEF CompletedFrom
    <2> QED
      BY <2>1, <2>2, ConsumesOrder
  <1>15. AttemptsAccounted'
    <2>1. ASSUME NEW d \in execs
          PROVE  \/ \E i \in DOMAIN ring' : ring'[i].kind = "attempt" /\ ring'[i].call = d
                 \/ \E u \in Threads : <<u, d>> \in pending' \/ completed'[u] = d
                 \/ \E l \in lines' : l.argv = d
                 \/ Gapped(d)' \/ d \in ringLost' \cup argvLost'
      <3>1. CASE \E i \in DOMAIN ring : ring[i].kind = "attempt" /\ ring[i].call = d
        <4>1. PICK i \in DOMAIN ring : ring[i].kind = "attempt" /\ ring[i].call = d
          BY <3>1
        <4>2. CASE i = 1
          <5>1. d = c
            BY <4>1, <4>2
          <5>2. <<t, c>> \in pending' \/ Gapped(c)'
            BY <1>2, <1>11, <4>1, <4>2 DEF KeepsAttempts, IsRecord, GivenUp, Gapped
          <5> QED
            BY <1>2, <5>1, <5>2
        <4>3. CASE i # 1
          <5>1. i \in Nat /\ i - 1 \in DOMAIN ring'
            BY <1>1, <4>3, Shift
          <5>2. ring'[i - 1] = ring[i]
            BY <1>3, <5>1
          <5> QED
            BY <4>1, <5>1, <5>2
        <4> QED
          BY <4>2, <4>3
      <3>2. CASE ~ \E i \in DOMAIN ring : ring[i].kind = "attempt" /\ ring[i].call = d
        BY <1>3, <1>5, <3>2 DEF IInv, AttemptsAccounted
      <3> QED
        BY <3>1, <3>2
    <2> QED
      BY <1>3, <2>1 DEF AttemptsAccounted
  <1>16. NoOrphanResult'
    BY <1>5 DEF IInv, NoOrphanResult
  <1>17. GapOrArgv'
    <2>1. \A l \in lines : l.argv # c
      BY <1>4 DEF Used
    <2> QED
      BY <1>3, <1>7, <2>1 DEF IInv, GapOrArgv
  <1>18. MissingArgvHasReason'
    BY <1>3 DEF IInv, MissingArgvHasReason
  <1> QED
    BY <1>10, <1>13, <1>14, <1>15, <1>16, <1>17, <1>18 DEF IInv

\* A result that finds its attempt: the pair leaves pending for completed. What
\* completed held is overwritten, and its own record was lost, or it would have
\* come before this result.
LEMMA ResultFoundPreserves ==
  ASSUME IInv, Consumes, NEW r, ring[1] = r, r.kind = "result",
         <<r.thread, r.call>> \in pending,
         pending' = pending \ {<<r.thread, r.call>>},
         completed' = [completed EXCEPT ![r.thread] = r.call],
         UNCHANGED <<gaps, lines>>
  PROVE  IInv'
  <1> DEFINE t == r.thread
             c == r.call
  <1>1. TypeOK /\ Bounded /\ ArgvInv
    BY DEF IInv
  <1>2. t \in Threads /\ c \in execs /\ 1 \in DOMAIN ring /\ c # None
    <2>1. 1 \in DOMAIN ring
      BY <1>1, Shift
    <2>2. c \in execs
      BY <1>1, <2>1 DEF Bounded
    <2>3. c # None
      BY <1>1, <2>2, ExecsAreCalls DEF None
    <2> QED
      BY <1>1, <2>1, <2>2, <2>3, RingType
  <1>3. /\ UNCHANGED <<execs, attempts, ringLost, argvLost, gaps, lines>>
        /\ \A i \in DOMAIN ring' : i \in Nat /\ i >= 1 /\ i + 1 \in DOMAIN ring /\ ring'[i] = ring[i + 1]
    BY <1>1, Shift
  <1>4. /\ completed' \in [Threads -> execs \cup {None}] /\ completed'[t] = c
        /\ \A u \in Threads : u # t => completed'[u] = completed[u]
    BY <1>1, <1>2 DEF TypeOK
  \* Nothing else is about this exec.
  <1>5. /\ ~Gapped(c) /\ \A p \in pending' : p \in pending /\ p[2] # c
    <2>1. <<t, c>>[2] = c
      OBVIOUS
    <2> QED
      BY <1>1, <2>1 DEF ArgvInv, PendingNew
  <1>6. \A u \in Threads : attempts[u] # c
    BY <1>1, <1>2 DEF ArgvInv, OpenAttempt
  <1>7. \A i \in DOMAIN ring' : ring'[i].kind # "syscall" => ring'[i].call # c
    <2>1. ASSUME NEW i \in DOMAIN ring', ring'[i].kind = "result"
          PROVE  ring'[i].call # c
      BY <1>1, <1>2, <1>3, <2>1 DEF ArgvInv, RecordsOnce
    <2>2. ASSUME NEW i \in DOMAIN ring', ring'[i].kind = "attempt"
          PROVE  ring'[i].call # c
      <3>1. \A p \in pending : p[2] # ring[i + 1].call
        BY <1>1, <1>3, <2>2 DEF ArgvInv, AttemptNew
      <3>2. <<t, c>>[2] = c
        OBVIOUS
      <3> QED
        BY <1>3, <3>1, <3>2
    <2> QED
      BY <1>1, <1>3, <2>1, <2>2, RingType
  <1>8. \A d : Used(d)' => Used(d) \/ d = c
    BY <1>3, <1>4 DEF Used
  <1>9. \A d : (Gapped(d)' <=> Gapped(d)) /\ (GivenUp(d)' <=> GivenUp(d))
    BY <1>3 DEF Gapped, GivenUp
  <1>10. TypeOK' /\ Bounded' /\ RecordsOnce' /\ CallSaved' /\ LostEntriesAreCounted'
    <2>1. IsFiniteSet(pending') /\ Cardinality(pending') <= PendingSlots
      <3>1. IsFiniteSet(pending) /\ Cardinality(pending) \in Nat /\ Cardinality(pending) <= PendingSlots
        BY <1>1, FS_CardinalityType DEF Bounded, TypeOK
      <3>2. IsFiniteSet(pending') /\ Cardinality(pending') <= Cardinality(pending)
        BY <3>1, FS_Subset
      <3>3. Cardinality(pending') \in Nat
        BY <3>2, FS_CardinalityType
      <3> QED
        BY <3>1, <3>2, <3>3, Limits
    <2>2. pending' \subseteq Threads \X execs
      BY <1>1 DEF TypeOK
    <2>3. /\ gaps' \subseteq [reason : {"capacity", "timeout", "missing"}, call : execs]
          /\ lines' \subseteq [call : Calls, argv : execs \cup {None}]
          /\ \A l \in lines' : l.call <= calls
      BY <1>1, <1>3 DEF TypeOK, Bounded
    <2> QED
      BY <1>4, <2>1, <2>2, <2>3, ConsumesTypes
  <1>11. KeepsAttempts
    <2>1. \A p \in pending : p \in pending' \/ p[2] = c
      OBVIOUS
    <2> QED
      BY <2>1 DEF KeepsAttempts, IsRecord
  <1>12. /\ \A u \in Threads : \A d : \A b \in Nat :
              d # c /\ Captured(u, d, b + 1) => Captured(u, d, b)'
         /\ \A u \in Threads : \A d : d # c /\ Captured(u, d, End) => Captured(u, d, End)'
    BY <1>1, <1>11, ShiftCaptured
  <1>13. ArgvInv'
    <2>1. OpenAttempt'
      BY <1>1, <1>3, <1>6, <1>8, <1>12 DEF ArgvInv, OpenAttempt
    <2>2. AttemptNew'
      <3>1. ASSUME NEW i \in DOMAIN ring', ring'[i].kind = "attempt"
            PROVE  /\ \A p \in pending' : p[2] # ring'[i].call
                   /\ ~Gapped(ring[i].call)' /\ ~Used(ring[i].call)'
        <4>1. /\ \A p \in pending : p[2] # ring[i + 1].call
              /\ ~Gapped(ring[i + 1].call) /\ ~Used(ring[i + 1].call)
          BY <1>1, <1>3, <3>1 DEF ArgvInv, AttemptNew
        <4> QED
          BY <1>3, <1>5, <1>7, <1>8, <1>9, <3>1, <4>1
      <3> QED
        BY <3>1 DEF AttemptNew
    <2>3. PendingNew'
      BY <1>1, <1>5, <1>8, <1>9 DEF ArgvInv, PendingNew
    <2>4. ResultOpen'
      <3>1. ASSUME NEW i \in DOMAIN ring', ring'[i].kind = "result"
            PROVE  Captured(ring[i].thread, ring[i].call, i)' /\ ~Used(ring[i].call)'
        <4>1. /\ Captured(ring[i + 1].thread, ring[i + 1].call, i + 1) /\ ~Used(ring[i + 1].call)
              /\ ring[i + 1].thread \in Threads
          BY <1>1, <1>3, <3>1, RingType DEF ArgvInv, ResultOpen
        <4>2. ring[i + 1].call # c
          BY <1>3, <1>7, <3>1
        <4> QED
          BY <1>3, <1>8, <1>12, <4>1, <4>2
      <3> QED
        BY <3>1 DEF ResultOpen
    <2>5. UsedNotGapped'
      BY <1>1, <1>3, <1>5, <1>8, <1>9 DEF ArgvInv, UsedNotGapped
    <2> QED
      BY <1>10, <2>1, <2>2, <2>3, <2>4, <2>5 DEF ArgvInv
  <1>14. OrderInv'
    <2>1. ServesHead
      BY <1>4 DEF ServesHead, IsRecord, HeadOf
    <2>2. CompletedFrom
      BY <1>4 DEF CompletedFrom, HeadOf
    <2> QED
      BY <2>1, <2>2, ConsumesOrder
  \* What completed[t] held had its record lost.
  <1>15. completed[t] # None => completed[t] \in ringLost
    <2> SUFFICES ASSUME completed[t] # None PROVE completed[t] \in ringLost
      OBVIOUS
    <2>1. Claimed(t, completed[t], 0)
      BY <1>2 DEF IInv, OrderInv, ResultClaimed
    <2>2. \A b \in Nat : b > 1 => ~Quiet(t, 0, b)
      BY <1>2 DEF Quiet
    <2>3. End \in Nat /\ End > 1
      BY <1>1, Shift
    <2>4. \A i \in DOMAIN ring : IsRecord(i, "syscall", t, completed[t]) => i \in Nat /\ i > 1
      BY <1>1, RingType DEF IsRecord
    <2> QED
      BY <2>1, <2>2, <2>3, <2>4 DEF Claimed
  <1>16. AttemptsAccounted'
    <2>1. ASSUME NEW d \in execs
          PROVE  \/ \E i \in DOMAIN ring' : ring'[i].kind = "attempt" /\ ring'[i].call = d
                 \/ \E u \in Threads : <<u, d>> \in pending' \/ completed'[u] = d
                 \/ \E l \in lines' : l.argv = d
                 \/ Gapped(d)' \/ d \in ringLost' \cup argvLost'
      <3>1. CASE \E i \in DOMAIN ring : ring[i].kind = "attempt" /\ ring[i].call = d
        <4>1. PICK i \in DOMAIN ring : ring[i].kind = "attempt" /\ ring[i].call = d
          BY <3>1
        <4>2. i # 1
          BY <4>1
        <4>3. i \in Nat /\ i - 1 \in DOMAIN ring'
          BY <1>1, <4>2, Shift
        <4>4. ring'[i - 1] = ring[i]
          BY <1>3, <4>3
        <4> QED
          BY <4>1, <4>3, <4>4
      <3>2. CASE \E u \in Threads : <<u, d>> \in pending \/ completed[u] = d
        <4>1. PICK u \in Threads : <<u, d>> \in pending \/ completed[u] = d
          BY <3>2
        <4>2. CASE <<u, d>> \in pending
          <5>1. <<u, d>> \in pending' \/ (u = t /\ d = c)
            BY <4>2
          <5> QED
            BY <1>2, <1>4, <5>1
        <4>3. CASE completed[u] = d
          <5>1. d # None
            BY <1>1, <2>1, ExecsAreCalls DEF None
          <5> QED
            BY <1>3, <1>4, <1>15, <4>1, <4>3, <5>1
        <4> QED
          BY <4>1, <4>2, <4>3
      <3> QED
        BY <1>3, <1>9, <3>1, <3>2 DEF IInv, AttemptsAccounted
    <2> QED
      BY <1>3, <2>1 DEF AttemptsAccounted
  <1>17. NoOrphanResult' /\ GapOrArgv' /\ MissingArgvHasReason'
    BY <1>3, <1>9 DEF IInv, NoOrphanResult, GapOrArgv, MissingArgvHasReason
  <1> QED
    BY <1>10, <1>13, <1>14, <1>16, <1>17 DEF IInv

\* A result without its attempt: the attempt was captured before it, so it was given up.
LEMMA ResultMissingPreserves ==
  ASSUME IInv, Consumes, NEW r, ring[1] = r, r.kind = "result",
         <<r.thread, r.call>> \notin pending,
         gaps' = gaps \cup {[reason |-> "missing", call |-> r.call]},
         UNCHANGED <<pending, completed, lines>>
  PROVE  IInv'
  <1> DEFINE t == r.thread
             c == r.call
  <1>1. TypeOK /\ Bounded /\ ArgvInv
    BY DEF IInv
  <1>2. t \in Threads /\ c \in execs /\ 1 \in DOMAIN ring
    <2>1. 1 \in DOMAIN ring
      BY <1>1, Shift
    <2> QED
      BY <1>1, <2>1, RingType DEF Bounded
  <1>3. /\ UNCHANGED <<execs, attempts, ringLost, argvLost, pending, completed, lines>>
        /\ \A i \in DOMAIN ring' : i \in Nat /\ i >= 1 /\ i + 1 \in DOMAIN ring /\ ring'[i] = ring[i + 1]
    BY <1>1, Shift
  <1>4. GivenUp(c) /\ Gapped(c)
    <2>1. Captured(t, c, 1)
      BY <1>1, <1>2 DEF ArgvInv, ResultOpen
    <2>2. \A i \in DOMAIN ring : ~(i < 1)
      BY <1>1, RingType
    <2> QED
      BY <2>1, <2>2 DEF Captured, GivenUp, Gapped
  <1>5. \A d : (Gapped(d)' <=> Gapped(d)) /\ (Used(d)' <=> Used(d))
    <2>1. ASSUME NEW d, NEW g \in gaps', g.call = d
          PROVE  Gapped(d)
      <3>1. CASE g \in gaps
        BY <2>1, <3>1 DEF Gapped
      <3>2. CASE g = [reason |-> "missing", call |-> c]
        BY <1>4, <2>1, <3>2
      <3> QED
        BY <3>1, <3>2
    <2> QED
      BY <1>3, <2>1 DEF Gapped, Used
  <1>6. \A i \in DOMAIN ring' : ring'[i].kind = "result" => ring'[i].call # c
    BY <1>1, <1>2, <1>3 DEF ArgvInv, RecordsOnce
  <1>7. \A u \in Threads : attempts[u] # c \/ attempts[u] = None
    BY <1>1, <1>2 DEF ArgvInv, OpenAttempt
  <1>8. TypeOK' /\ Bounded' /\ RecordsOnce' /\ CallSaved' /\ LostEntriesAreCounted'
    <2>1. gaps' \subseteq [reason : {"capacity", "timeout", "missing"}, call : execs]
      BY <1>1, <1>2 DEF TypeOK
    <2>2. /\ lines' \subseteq [call : Calls, argv : execs \cup {None}]
          /\ \A l \in lines' : l.call <= calls
          /\ completed' \in [Threads -> execs \cup {None}]
          /\ pending' \subseteq Threads \X execs
          /\ IsFiniteSet(pending') /\ Cardinality(pending') <= PendingSlots
      BY <1>1, <1>3 DEF TypeOK, Bounded
    <2> QED
      BY <2>1, <2>2, ConsumesTypes
  <1>9. KeepsAttempts
    BY <1>3 DEF KeepsAttempts, IsRecord
  <1>10. /\ \A u \in Threads : \A d : \A b \in Nat :
              d # c /\ Captured(u, d, b + 1) => Captured(u, d, b)'
         /\ \A u \in Threads : \A d : d # c /\ Captured(u, d, End) => Captured(u, d, End)'
    BY <1>1, <1>9, ShiftCaptured
  <1>11. ArgvInv'
    <2>1. OpenAttempt'
      BY <1>1, <1>3, <1>5, <1>7, <1>10 DEF ArgvInv, OpenAttempt
    <2>2. AttemptNew'
      <3>1. ASSUME NEW i \in DOMAIN ring', ring'[i].kind = "attempt"
            PROVE  /\ \A p \in pending' : p[2] # ring'[i].call
                   /\ ~Gapped(ring[i].call)' /\ ~Used(ring[i].call)'
        <4>1. /\ \A p \in pending : p[2] # ring[i + 1].call
              /\ ~Gapped(ring[i + 1].call) /\ ~Used(ring[i + 1].call)
          BY <1>1, <1>3, <3>1 DEF ArgvInv, AttemptNew
        <4> QED
          BY <1>3, <1>5, <3>1, <4>1
      <3> QED
        BY <3>1 DEF AttemptNew
    <2>3. PendingNew'
      BY <1>1, <1>3, <1>5 DEF ArgvInv, PendingNew
    <2>4. ResultOpen'
      <3>1. ASSUME NEW i \in DOMAIN ring', ring'[i].kind = "result"
            PROVE  Captured(ring[i].thread, ring[i].call, i)' /\ ~Used(ring[i].call)'
        <4>1. /\ Captured(ring[i + 1].thread, ring[i + 1].call, i + 1) /\ ~Used(ring[i + 1].call)
              /\ ring[i + 1].thread \in Threads
          BY <1>1, <1>3, <3>1, RingType DEF ArgvInv, ResultOpen
        <4>2. ring[i + 1].call # c
          BY <1>3, <1>6, <3>1
        <4> QED
          BY <1>3, <1>5, <1>10, <4>1, <4>2
      <3> QED
        BY <3>1 DEF ResultOpen
    <2>5. UsedNotGapped'
      BY <1>1, <1>3, <1>5 DEF ArgvInv, UsedNotGapped
    <2> QED
      BY <1>8, <2>1, <2>2, <2>3, <2>4, <2>5 DEF ArgvInv
  <1>12. OrderInv'
    <2>1. ServesHead
      BY <1>3, <1>4, <1>5 DEF ServesHead, IsRecord
    <2>2. CompletedFrom
      BY <1>3 DEF CompletedFrom
    <2> QED
      BY <2>1, <2>2, ConsumesOrder
  <1>13. AttemptsAccounted'
    <2>1. ASSUME NEW i \in DOMAIN ring, ring[i].kind = "attempt"
          PROVE  \E j \in DOMAIN ring' : ring'[j].kind = "attempt" /\ ring'[j].call = ring[i].call
      <3>1. i \in Nat /\ i - 1 \in DOMAIN ring'
        BY <1>1, <2>1, Shift
      <3>2. ring'[i - 1] = ring[i]
        BY <1>3, <3>1
      <3> QED
        BY <2>1, <3>1, <3>2
    <2>2. \A d : Gapped(d) => Gapped(d)'
      BY <1>5
    <2> HIDE DEF t, c
    <2> QED
      BY <1>3, <2>1, <2>2 DEF IInv, AttemptsAccounted
  <1>14. NoOrphanResult'
    <2>1. \E h \in gaps' : h.call = c /\ h.reason \in {"capacity", "timeout"}
      BY <1>4 DEF GivenUp
    <2>2. \A h \in gaps : h \in gaps'
      OBVIOUS
    <2>3. ASSUME NEW g \in gaps', g.reason = "missing"
          PROVE  \E h \in gaps' : h.call = g.call /\ h.reason \in {"capacity", "timeout"}
      <3>1. CASE g \in gaps
        BY <2>2, <2>3, <3>1 DEF IInv, NoOrphanResult
      <3>2. CASE g = [reason |-> "missing", call |-> c]
        BY <2>1, <3>2
      <3> QED
        BY <3>1, <3>2
    <2> QED
      BY <2>3 DEF NoOrphanResult
  <1>15. GapOrArgv' /\ MissingArgvHasReason'
    BY <1>3, <1>5 DEF IInv, GapOrArgv, MissingArgvHasReason
  <1> QED
    BY <1>8, <1>11, <1>12, <1>13, <1>14, <1>15 DEF IInv

LEMMA AcceptResultPreserves ==
  ASSUME IInv, Consumes, NEW r, ring[1] = r, r.kind = "result", AcceptResult(r)
  PROVE  IInv'
  BY ResultFoundPreserves, ResultMissingPreserves DEF AcceptResult, Gap

\* A Syscall record takes what completed holds for its thread: its own exec's argv, or
\* that of an exec whose record was lost.
LEMMA AcceptSyscallPreserves ==
  ASSUME IInv, Consumes, NEW r, ring[1] = r, r.kind = "syscall", AcceptSyscall(r)
  PROVE  IInv'
  <1> DEFINE t == r.thread
             c == r.call
             lent == completed[t]
             line == [call |-> c, argv |-> lent]
  <1>1. TypeOK /\ Bounded /\ ArgvInv
    BY DEF IInv
  <1>2. /\ t \in Threads /\ c \in Calls /\ c <= calls /\ 1 \in DOMAIN ring
        /\ lent \in execs \cup {None} /\ None \notin execs
    <2>1. 1 \in DOMAIN ring
      BY <1>1, Shift
    <2>2. None \notin execs
      BY <1>1, ExecsAreCalls DEF None
    <2>3. t \in Threads
      BY <1>1, <2>1, RingType
    <2> QED
      BY <1>1, <2>1, <2>2, <2>3, RingType, ThreadType DEF Bounded
  <1>3. /\ UNCHANGED <<execs, calls, attempts, ringLost, argvLost, pending, gaps>>
        /\ \A i \in DOMAIN ring' : i \in Nat /\ i >= 1 /\ i + 1 \in DOMAIN ring /\ ring'[i] = ring[i + 1]
    BY <1>1, Shift DEF AcceptSyscall
  <1>4. /\ completed' \in [Threads -> execs \cup {None}] /\ completed'[t] = None
        /\ \A u \in Threads : u # t => completed'[u] = completed[u]
    BY <1>1, <1>2 DEF TypeOK, AcceptSyscall
  <1>5. line.call = c /\ line.argv = lent /\ lines' = lines \cup {line}
    BY DEF AcceptSyscall
  <1> HIDE DEF line
  <1>6. \A l \in lines' : l \in lines \/ (l.call = c /\ l.argv = lent)
    BY <1>5
  <1>7. \A d : d # None => (Used(d)' <=> Used(d))
    <2>1. ASSUME NEW d, d # None, Used(d)
          PROVE  Used(d)'
      <3>1. ASSUME NEW u \in Threads, completed[u] = d
            PROVE  Used(d)'
        BY <1>4, <1>5, <2>1, <3>1 DEF Used
      <3>2. ASSUME NEW l \in lines, l.argv = d
            PROVE  Used(d)'
        BY <1>5, <3>2 DEF Used
      <3> QED
        BY <2>1, <3>1, <3>2 DEF Used
    <2>2. ASSUME NEW d, d # None, Used(d)'
          PROVE  Used(d)
      BY <1>2, <1>4, <1>6, <2>2 DEF Used
    <2> QED
      BY <2>1, <2>2
  <1>8. \A d : Gapped(d)' <=> Gapped(d)
    BY <1>3 DEF Gapped
  <1>9. \A i \in DOMAIN ring : ring[i].kind # "syscall" => ring[i].call # None
    BY <1>1, <1>2 DEF Bounded
  <1>10. TypeOK' /\ Bounded' /\ RecordsOnce' /\ CallSaved' /\ LostEntriesAreCounted'
    <2>1. line \in [call : Calls, argv : execs \cup {None}]
      BY <1>2 DEF line
    <2>2. lines' \subseteq [call : Calls, argv : execs \cup {None}]
      BY <1>1, <1>5, <2>1 DEF TypeOK
    <2>3. \A l \in lines' : l.call <= calls
      BY <1>1, <1>2, <1>6 DEF Bounded
    <2>4. /\ gaps' \subseteq [reason : {"capacity", "timeout", "missing"}, call : execs]
          /\ pending' \subseteq Threads \X execs
          /\ IsFiniteSet(pending') /\ Cardinality(pending') <= PendingSlots
      BY <1>1, <1>3 DEF TypeOK, Bounded
    <2> QED
      BY <1>4, <2>2, <2>3, <2>4, ConsumesTypes
  <1>11. KeepsAttempts
    BY <1>3 DEF KeepsAttempts, IsRecord
  <1>12. /\ \A u \in Threads : \A d : \A b \in Nat : Captured(u, d, b + 1) => Captured(u, d, b)'
         /\ \A u \in Threads : \A d : Captured(u, d, End) => Captured(u, d, End)'
    BY <1>1, <1>11, ShiftCaptured
  <1>13. ArgvInv'
    <2>1. OpenAttempt'
      BY <1>1, <1>3, <1>7, <1>12 DEF ArgvInv, OpenAttempt
    <2>2. AttemptNew'
      <3>1. ASSUME NEW i \in DOMAIN ring', ring'[i].kind = "attempt"
            PROVE  /\ \A p \in pending' : p[2] # ring'[i].call
                   /\ ~Gapped(ring[i].call)' /\ ~Used(ring[i].call)'
        <4>1. /\ \A p \in pending : p[2] # ring[i + 1].call
              /\ ~Gapped(ring[i + 1].call) /\ ~Used(ring[i + 1].call)
              /\ ring[i + 1].call # None
          BY <1>1, <1>3, <1>9, <3>1 DEF ArgvInv, AttemptNew
        <4> QED
          BY <1>3, <1>7, <1>8, <3>1, <4>1
      <3> QED
        BY <3>1 DEF AttemptNew
    <2>3. PendingNew'
      <3>1. \A p \in pending : p[2] # None
        BY <1>1, <1>2 DEF TypeOK
      <3> QED
        BY <1>1, <1>3, <1>7, <1>8, <3>1 DEF ArgvInv, PendingNew
    <2>4. ResultOpen'
      <3>1. ASSUME NEW i \in DOMAIN ring', ring'[i].kind = "result"
            PROVE  Captured(ring[i].thread, ring[i].call, i)' /\ ~Used(ring[i].call)'
        <4>1. /\ Captured(ring[i + 1].thread, ring[i + 1].call, i + 1) /\ ~Used(ring[i + 1].call)
              /\ ring[i + 1].thread \in Threads /\ ring[i + 1].call # None
          BY <1>1, <1>3, <1>9, <3>1, RingType DEF ArgvInv, ResultOpen
        <4> QED
          BY <1>3, <1>7, <1>12, <4>1
      <3> QED
        BY <3>1 DEF ResultOpen
    <2>5. UsedNotGapped'
      BY <1>1, <1>2, <1>3, <1>7, <1>8 DEF ArgvInv, UsedNotGapped
    <2> QED
      BY <1>10, <2>1, <2>2, <2>3, <2>4, <2>5 DEF ArgvInv
  <1>14. OrderInv'
    <2>1. ServesHead
      BY <1>4 DEF ServesHead, IsRecord, HeadOf
    <2>2. CompletedFrom
      BY <1>4 DEF CompletedFrom, HeadOf
    <2> QED
      BY <2>1, <2>2, ConsumesOrder
  <1>15. AttemptsAccounted'
    <2>1. ASSUME NEW i \in DOMAIN ring, ring[i].kind = "attempt"
          PROVE  \E j \in DOMAIN ring' : ring'[j].kind = "attempt" /\ ring'[j].call = ring[i].call
      <3>1. i \in Nat /\ i - 1 \in DOMAIN ring'
        BY <1>1, <2>1, Shift
      <3>2. ring'[i - 1] = ring[i]
        BY <1>3, <3>1
      <3> QED
        BY <2>1, <3>1, <3>2
    <2>2. \A u \in Threads : completed[u] = completed'[u] \/ (line \in lines' /\ line.argv = completed[u])
      BY <1>4, <1>5
    <2>3. \A l \in lines : l \in lines'
      BY <1>5
    <2> QED
      BY <1>3, <1>8, <2>1, <2>2, <2>3 DEF IInv, AttemptsAccounted
  <1>16. NoOrphanResult'
    BY <1>3 DEF IInv, NoOrphanResult
  <1>17. GapOrArgv'
    <2>1. ~Gapped(lent)
      <3>1. CASE lent = None
        BY <1>1, <1>2, <3>1 DEF TypeOK, Gapped
      <3>2. CASE lent # None
        BY <1>1, <1>2, <3>2 DEF ArgvInv, UsedNotGapped, Used
      <3> QED
        BY <3>1, <3>2
    <2>2. ASSUME lent # None, lent # c
          PROVE  lent \in ringLost
      <3>1. Claimed(t, lent, 0)
        BY <1>2, <2>2 DEF IInv, OrderInv, ResultClaimed
      <3>2. \A b \in Nat : b > 1 => ~Quiet(t, 0, b)
        BY <1>2 DEF Quiet
      <3>3. End \in Nat /\ End > 1
        BY <1>1, Shift
      <3>4. \A i \in DOMAIN ring : IsRecord(i, "syscall", t, lent) => i \in Nat /\ i > 1
        BY <1>1, <2>2, RingType DEF IsRecord
      <3> QED
        BY <3>1, <3>2, <3>3, <3>4 DEF Claimed
    <2> QED
      BY <1>3, <1>6, <1>8, <2>1, <2>2 DEF IInv, GapOrArgv
  <1>18. MissingArgvHasReason'
    <2>1. ASSUME c \in execs, lent # c
          PROVE  Gapped(c) \/ c \in argvLost
      <3>1. Served(t, c, 1)
        BY <1>2, <2>1 DEF IInv, OrderInv, SyscallServed
      <3>2. \A j \in DOMAIN ring : ~(j < 1)
        BY <1>1, RingType
      <3> QED
        BY <2>1, <3>1, <3>2 DEF Served
    <2> QED
      BY <1>3, <1>6, <1>8, <2>1 DEF IInv, MissingArgvHasReason
  <1> QED
    BY <1>10, <1>13, <1>14, <1>15, <1>16, <1>17, <1>18 DEF IInv

LEMMA AcceptPreserves ==
  ASSUME IInv, Accept
  PROVE  IInv'
  <1>1. Taken /\ Head(ring) = ring[1] /\ Fits
    BY TakenRing DEF IInv, Accept, Fits
  <1>2. UNCHANGED <<thread, execs, calls, inflight, attempts, ringLost, argvLost, inflightLost, missed>>
    BY DEF Accept
  <1>3. PICK r : r = ring[1]
    OBVIOUS
  <1>4. \/ r.kind = "attempt" /\ AcceptAttempt(r)
        \/ r.kind = "result" /\ AcceptResult(r)
        \/ r.kind = "syscall" /\ AcceptSyscall(r)
    BY <1>1, <1>3 DEF Accept
  <1>5. gaps \subseteq gaps'
    BY <1>4 DEF AcceptAttempt, AcceptResult, AcceptSyscall, Gap
  <1>6. Consumes
    BY <1>1, <1>2, <1>5 DEF Consumes
  <1> QED
    BY <1>3, <1>4, <1>6, AcceptAttemptPreserves, AcceptResultPreserves, AcceptSyscallPreserves

\* The ring is empty: an attempt that times out may still get its result, which will
\* then find that it was given up.
LEMMA ExpirePreserves ==
  ASSUME IInv, Expire
  PROVE  IInv'
  <1>1. TypeOK /\ Bounded /\ ArgvInv /\ ring = <<>>
        /\ UNCHANGED <<thread, execs, calls, kernel, missed, completed, lines>>
    BY DEF IInv, Expire
  <1>2. PICK due \in SUBSET pending : pending' = pending \ due /\ TimedOut(due)
    BY DEF Expire
  <1>3. UNCHANGED <<thread, execs, calls, inflight, attempts, ring, ringLost, argvLost,
                    inflightLost, missed, completed, lines>>
    BY <1>1 DEF kernel
  <1>4. DOMAIN ring = {} /\ DOMAIN ring' = {} /\ End' = End
    BY <1>1, <1>3 DEF End
  <1>5. /\ gaps \subseteq gaps'
        /\ \A p \in due : \E g \in gaps' : g.call = p[2] /\ g.reason = "timeout"
        /\ \A g \in gaps' : g \in gaps \/ (g.reason = "timeout" /\ \E p \in due : g.call = p[2])
    <2>1. gaps' = gaps \cup {[reason |-> "timeout", call |-> p[2]] : p \in due}
      BY <1>2 DEF TimedOut
    <2>2. ASSUME NEW p \in due
          PROVE  \E g \in gaps' : g.call = p[2] /\ g.reason = "timeout"
      <3>1. [reason |-> "timeout", call |-> p[2]] \in gaps'
        BY <2>1
      <3> QED
        BY <3>1
    <2> QED
      BY <2>1, <2>2
  <1>6. \A d : Gapped(d)' => Gapped(d) \/ \E p \in due : p[2] = d
    BY <1>5 DEF Gapped
  <1>7. \A d : (Gapped(d) => Gapped(d)') /\ (GivenUp(d) => GivenUp(d)') /\ (Used(d)' <=> Used(d))
    BY <1>3, <1>5 DEF Gapped, GivenUp, Used
  <1>8. TypeOK' /\ Bounded'
    <2>1. IsFiniteSet(pending) /\ Cardinality(pending) \in Nat /\ Cardinality(pending) <= PendingSlots
      BY <1>1, FS_CardinalityType DEF Bounded, TypeOK
    <2>2. IsFiniteSet(pending') /\ Cardinality(pending') <= Cardinality(pending)
      BY <1>2, <2>1, FS_Subset
    <2>3. Cardinality(pending') \in Nat
      BY <2>2, FS_CardinalityType
    <2>4. Cardinality(pending') <= PendingSlots
      BY <2>1, <2>2, <2>3, Limits
    <2>5. pending' \subseteq Threads \X execs'
      BY <1>1, <1>2, <1>3 DEF TypeOK
    <2>6. gaps' \subseteq [reason : {"capacity", "timeout", "missing"}, call : execs']
      <3>1. gaps' = gaps \cup {[reason |-> "timeout", call |-> p[2]] : p \in due}
        BY <1>2 DEF TimedOut
      <3>2. \A p \in due : p[2] \in execs
        BY <1>1, <1>2 DEF TypeOK
      <3> QED
        BY <1>1, <1>3, <3>1, <3>2 DEF TypeOK
    <2> QED
      BY <1>1, <1>3, <2>2, <2>4, <2>5, <2>6 DEF TypeOK, Bounded
  <1>9. ArgvInv'
    <2>1. \A u, d : Captured(u, d, End) => Captured(u, d, End)'
      <3>1. ASSUME NEW u, NEW d, Captured(u, d, End)
            PROVE  Captured(u, d, End)'
        <4>1. GivenUp(d) \/ <<u, d>> \in pending
          BY <1>4, <3>1 DEF Captured
        <4>2. <<u, d>>[2] = d
          OBVIOUS
        <4>3. <<u, d>> \in due => GivenUp(d)'
          BY <1>5, <4>2 DEF GivenUp
        <4> QED
          BY <1>2, <1>7, <4>1, <4>3 DEF Captured
      <3> QED
        BY <3>1
    <2>2. OpenAttempt'
      BY <1>1, <1>3, <1>4, <1>7, <2>1 DEF ArgvInv, OpenAttempt
    <2>3. RecordsOnce' /\ AttemptNew' /\ ResultOpen'
      BY <1>4 DEF RecordsOnce, AttemptNew, ResultOpen
    <2>4. PendingNew'
      BY <1>1, <1>2, <1>6, <1>7 DEF ArgvInv, PendingNew
    <2>5. UsedNotGapped'
      BY <1>1, <1>2, <1>3, <1>6, <1>7 DEF ArgvInv, UsedNotGapped, PendingNew
    <2> QED
      BY <2>2, <2>3, <2>4, <2>5 DEF ArgvInv
  <1>10. OrderInv'
    <2>1. InflightAttempt'
      BY <1>3 DEF IInv, OrderInv, InflightAttempt
    <2>2. \A u, d, b : Served(u, d, b) => Served(u, d, b)'
      BY <1>3, <1>4, <1>7 DEF Served, Quiet
    <2>3. SyscallServed'
      BY <1>3, <1>4, <2>2 DEF IInv, OrderInv, SyscallServed
    <2>4. ResultClaimed'
      BY <1>3, <1>4 DEF IInv, OrderInv, ResultClaimed, Claimed, Quiet
    <2> QED
      BY <2>1, <2>3, <2>4 DEF OrderInv
  <1>11. AttemptsAccounted'
    <2>1. ASSUME NEW u, NEW d, <<u, d>> \in pending
          PROVE  <<u, d>> \in pending' \/ Gapped(d)'
      <3>1. <<u, d>>[2] = d
        OBVIOUS
      <3>2. <<u, d>> \in due => Gapped(d)'
        BY <1>5, <3>1 DEF Gapped
      <3> QED
        BY <1>2, <2>1, <3>2
    <2> QED
      BY <1>3, <1>4, <1>7, <2>1 DEF IInv, AttemptsAccounted
  <1>12. NoOrphanResult'
    BY <1>5 DEF IInv, NoOrphanResult
  <1>13. GapOrArgv'
    <2>1. \A l \in lines : ~Gapped(l.argv)'
      BY <1>1, <1>2, <1>6 DEF IInv, GapOrArgv, ArgvInv, PendingNew, Used
    <2> QED
      BY <1>3, <2>1 DEF IInv, GapOrArgv
  <1>14. MissingArgvHasReason'
    BY <1>3, <1>7 DEF IInv, MissingArgvHasReason
  <1>15. CallSaved' /\ LostEntriesAreCounted'
    BY <1>3 DEF IInv, CallSaved, LostEntriesAreCounted
  <1> QED
    BY <1>8, <1>9, <1>10, <1>11, <1>12, <1>13, <1>14, <1>15 DEF IInv

-----------------------------------------------------------------------------
(* The invariance of IInv.                                                  *)

LEMMA InitIInv == Init => IInv
  <1> SUFFICES ASSUME Init PROVE IInv
    OBVIOUS
  <1>1. TypeOK /\ Bounded
    BY InitTypes
  <1>2. /\ execs = {} /\ pending = {} /\ gaps = {} /\ lines = {} /\ missed = {}
        /\ \A t \in Threads : /\ thread[t].pc = "user" /\ inflight[t] = None
                             /\ attempts[t] = None /\ completed[t] = None
    BY DEF Init, User
  <1>3. DOMAIN ring = {}
    BY DEF Init
  <1>4. ArgvInv
    BY <1>2, <1>3 DEF ArgvInv, OpenAttempt, RecordsOnce, AttemptNew, PendingNew, ResultOpen,
                      UsedNotGapped
  <1>5. OrderInv
    BY <1>2, <1>3 DEF OrderInv, InflightAttempt, SyscallServed, ResultClaimed
  <1> QED
    BY <1>1, <1>2, <1>4, <1>5 DEF IInv, AttemptsAccounted, NoOrphanResult, GapOrArgv,
                                  MissingArgvHasReason, CallSaved, LostEntriesAreCounted

LEMMA StutterPreserves == IInv /\ UNCHANGED vars => IInv'
  <1> SUFFICES ASSUME IInv, UNCHANGED vars PROVE IInv'
    OBVIOUS
  <1>1. UNCHANGED <<thread, execs, calls, kernel, collector, missed>>
    BY DEF vars
  <1>2. ThreadsOnly
    BY <1>1 DEF ThreadsOnly, IInv, TypeOK
  <1>3. missed' \subseteq Calls /\ LostEntriesAreCounted'
    BY <1>1 DEF IInv, TypeOK, LostEntriesAreCounted, kernel
  <1> QED
    BY <1>2, <1>3, ThreadsOnlyPreserves

LEMMA NextPreserves == IInv /\ [Next]_vars => IInv'
  <1> SUFFICES ASSUME IInv, [Next]_vars PROVE IInv'
    OBVIOUS
  <1>1. ASSUME NEW t \in Threads, Syscall(t)
        PROVE  IInv'
    <2>1. CASE EnterFiltered(t)
      BY <2>1, EnterFilteredPreserves
    <2>2. CASE Exit(t)
      BY <2>2, ExitPreserves
    <2>3. CASE Spawn(t)
      BY <2>3, SpawnPreserves
    <2>4. CASE Execve(t)
      BY <2>4, ExecvePreserves
    <2>5. CASE \E c \in Calls : Enter(t, c)
      BY <2>5, EnterPreserves
    <2>6. CASE \E c \in Calls : EnterExec(t, c)
      BY <2>6, EnterExecPreserves
    <2>7. CASE ExitUnseen(t)
      BY <2>7, ExitUnseenPreserves
    <2>8. CASE EmitResult(t)
      BY <2>8, EmitResultPreserves
    <2>9. CASE EmitSyscall(t)
      BY <2>9, EmitSyscallPreserves
    <2> QED
      BY <1>1, <2>1, <2>2, <2>3, <2>4, <2>5, <2>6, <2>7, <2>8, <2>9 DEF Syscall
  <1>2. CASE Accept
    BY <1>2, AcceptPreserves
  <1>3. CASE Expire
    BY <1>3, ExpirePreserves
  <1>4. CASE UNCHANGED vars
    BY <1>4, StutterPreserves
  <1> QED
    BY <1>1, <1>2, <1>3, <1>4 DEF Next

LEMMA Invariance == Spec => []IInv
  BY InitIInv, NextPreserves, PTL DEF Spec

-----------------------------------------------------------------------------
(* The theorems.                                                            *)

\* Types and capacities: the ring and the pending attempts never hold more than they may.
THEOREM TypeCorrect == Spec => []TypeOK
  <1>1. IInv => TypeOK
    BY DEF IInv
  <1> QED
    BY <1>1, Invariance, PTL

\* No argv vanishes: every exec that passed the kernel filter is on its way, attached to
\* a record, or on record as a gap or a counted loss.
THEOREM AttemptsAreAccounted == Spec => []AttemptsAccounted
  <1>1. IInv => AttemptsAccounted
    BY DEF IInv
  <1> QED
    BY <1>1, Invariance, PTL

\* The collector reports a missing attempt only for one it gave up and reported before
\* (ExecPending: capacity or timeout), never because records came in the wrong order.
THEOREM ResultsFindTheirAttempts == Spec => []NoOrphanResult
  <1>1. IInv => NoOrphanResult
    BY DEF IInv
  <1> QED
    BY <1>1, Invariance, PTL

\* No exec has both an argv and a gap, and a record has the argv of another exec only if
\* a full ring cost that exec its own record.
THEOREM ArgvIsOwnOrOrphaned == Spec => []GapOrArgv
  <1>1. IInv => GapOrArgv
    BY DEF IInv
  <1> QED
    BY <1>1, Invariance, PTL

\* Every exec that is output without its argv has a gap or a counted loss.
THEOREM MissingArgvIsExplained == Spec => []MissingArgvHasReason
  <1>1. IInv => MissingArgvHasReason
    BY DEF IInv
  <1> QED
    BY <1>1, Invariance, PTL

\* A numbered call whose sys_exit finds no entry had its entry refused and counted.
THEOREM LostEntriesCounted == Spec => []LostEntriesAreCounted
  <1>1. IInv => LostEntriesAreCounted
    BY DEF IInv
  <1> QED
    BY <1>1, Invariance, PTL
=============================================================================
