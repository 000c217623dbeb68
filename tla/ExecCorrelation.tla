--------------------------- MODULE ExecCorrelation ---------------------------
(***************************************************************************)
(* How an exec gets its argv. sys_enter captures the arguments as an       *)
(* ExecAttempt and saves the call in INFLIGHT_SYSCALLS; sys_exit emits an  *)
(* ExecResult and then the Syscall record; the collector pairs attempt and *)
(* result by attempt_id, keeps the pair under pid_tgid in completed_execs  *)
(* and attaches it to the next Syscall record of that pid_tgid.            *)
(*                                                                         *)
(* One process: a thread id stands for its pid_tgid. A call that passes    *)
(* the kernel filter has a number, which is also its attempt_id; counters  *)
(* are kept as the sets of calls they were incremented for.                *)
(***************************************************************************)
EXTENDS Naturals, Sequences, FiniteSets

CONSTANTS
  Threads,      (* thread ids of the process                                *)
  Leader,       (* the thread whose tid is the process id                   *)
  MaxCalls,     (* bound: calls that pass the kernel filter                 *)
  RingSlots,    (* bound: records the ring buffer holds                     *)
  PendingSlots  (* capacity of ExecPending                                  *)

ASSUME ExecAssumption ==
  /\ Leader \in Threads
  /\ {MaxCalls, RingSlots, PendingSlots} \subseteq Nat \ {0}

VARIABLES
  thread,        (* [pc, call, exec]: where the thread is, and the call it  *)
                 (* was in when sys_enter ran under its present id          *)
  execs,         (* the numbered calls that are exec, calls so far          *)
  calls,
  inflight,      (* INFLIGHT_SYSCALLS                                       *)
  attempts,      (* EXEC_ATTEMPTS                                           *)
  ring,          (* EVENTS                                                  *)
  ringLost,      (* COUNTER_RINGBUF_DROPPED                                 *)
  argvLost,      (* COUNTER_EXEC_ARGV_DROPPED                               *)
  inflightLost,  (* COUNTER_INFLIGHT_DROPPED                                *)
  missed,        (* history: calls whose sys_exit found no entry            *)
  pending,       (* ExecPending: <<thread, attempt_id>>                     *)
  completed,     (* completed_execs                                         *)
  gaps,          (* gap records written: [reason, call]                     *)
  lines          (* Syscall records evaluated: [call, argv]                 *)

kernel == <<inflight, attempts, ring, ringLost, argvLost, inflightLost>>
collector == <<pending, completed, gaps, lines>>
vars == <<thread, execs, calls, kernel, missed, collector>>

None == 0
Calls == 1 .. MaxCalls
Dead == [pc |-> "dead", call |-> None, exec |-> FALSE]
User == [pc |-> "user", call |-> None, exec |-> FALSE]

Room == Len(ring) < RingSlots

-----------------------------------------------------------------------------
(* sys_enter.                                                               *)

\* A call the kernel filter drops: sys_enter leaves no trace of it.
EnterFiltered(t) ==
  /\ thread[t].pc = "user"
  /\ \E exec \in BOOLEAN :
       thread' = [thread EXCEPT ![t] = [pc |-> "call", call |-> None, exec |-> exec]]
  /\ UNCHANGED <<execs, calls, kernel, missed, collector>>

\* Mutant: an entry without room is not counted.
SaveInflightUncounted(t, c) ==
  \/ inflight' = [inflight EXCEPT ![t] = c] /\ UNCHANGED inflightLost
  \/ inflight[t] = None /\ UNCHANGED <<inflight, inflightLost>>

\* INFLIGHT_SYSCALLS.insert fails only for a new key in a full map.
SaveInflight(t, c) ==
  \/ inflight' = [inflight EXCEPT ![t] = c] /\ UNCHANGED inflightLost
  \/ /\ inflight[t] = None
     /\ inflightLost' = inflightLost \cup {c}
     /\ UNCHANGED inflight

NumberCall(c) ==
  /\ c = calls + 1 /\ c \in Calls
  /\ calls' = c

Enter(t, c) ==
  /\ thread[t].pc = "user"
  /\ NumberCall(c)
  /\ thread' = [thread EXCEPT ![t] = [pc |-> "call", call |-> c, exec |-> FALSE]]
  /\ SaveInflight(t, c)
  /\ UNCHANGED <<execs, attempts, ring, ringLost, argvLost, missed, collector>>

\* Mutant: the attempt id stays in the map although its record was dropped.
CaptureAndKeep(t, c) ==
  /\ attempts' = [attempts EXCEPT ![t] = c]
  /\ ring' = IF Room THEN Append(ring, [kind |-> "attempt", thread |-> t, call |-> c])
             ELSE ring
  /\ ringLost' = IF Room THEN ringLost ELSE ringLost \cup {c}
  /\ argvLost' = IF Room THEN argvLost ELSE argvLost \cup {c}

\* capture_attempt: the attempt id into EXEC_ATTEMPTS, the arguments into the
\* ring; if either has no room the id is taken back and the loss counted.
CaptureAttempt(t, c) ==
  \/ /\ Room
     /\ attempts' = [attempts EXCEPT ![t] = c]
     /\ ring' = Append(ring, [kind |-> "attempt", thread |-> t, call |-> c])
     /\ UNCHANGED <<ringLost, argvLost>>
  \/ /\ ~Room
     /\ attempts' = [attempts EXCEPT ![t] = None]
     /\ ringLost' = ringLost \cup {c} /\ argvLost' = argvLost \cup {c}
     /\ UNCHANGED ring
  \/ /\ attempts[t] = None
     /\ argvLost' = argvLost \cup {c}
     /\ UNCHANGED <<attempts, ring, ringLost>>

EnterExec(t, c) ==
  /\ thread[t].pc = "user"
  /\ NumberCall(c)
  /\ thread' = [thread EXCEPT ![t] = [pc |-> "call", call |-> c, exec |-> TRUE]]
  /\ execs' = execs \cup {c}
  /\ CaptureAttempt(t, c)
  /\ SaveInflight(t, c)
  /\ UNCHANGED <<missed, collector>>

\* exit and exit_group never reach sys_exit.
Exit(t) ==
  /\ thread[t].pc = "user"
  /\ thread' = [thread EXCEPT ![t] = Dead]
  /\ \/ \E c \in Calls : NumberCall(c) /\ SaveInflight(t, c)
     \/ UNCHANGED <<calls, inflight, inflightLost>>
  /\ UNCHANGED <<execs, attempts, ring, ringLost, argvLost, missed, collector>>

\* A new thread, possibly under the id of a dead one.
Spawn(t) ==
  /\ thread[t].pc = "dead"
  /\ thread' = [thread EXCEPT ![t] = User]
  /\ UNCHANGED <<execs, calls, kernel, missed, collector>>

\* The exec takes effect: the other threads are gone, once they have left
\* their own calls, and the caller goes on under the id of the leader. What it may have
\* saved was saved under its own: as a leader it has saved nothing.
Execve(t) ==
  /\ thread[t].pc = "call" /\ thread[t].exec
  /\ \A u \in Threads \ {t} : thread[u].pc \in {"user", "dead"}
  /\ thread' = [u \in Threads |->
       IF u # Leader THEN Dead
       ELSE [thread[t] EXCEPT !.exec = FALSE, !.call = IF t = Leader THEN @ ELSE None]]
  /\ UNCHANGED <<execs, calls, kernel, missed, collector>>

-----------------------------------------------------------------------------
(* sys_exit.                                                                *)

\* Nothing saved under this id: the handler returns.
ExitUnseen(t) ==
  /\ thread[t].pc = "call" /\ inflight[t] = None
  /\ thread' = [thread EXCEPT ![t] = User]
  /\ missed' = IF thread[t].call = None THEN missed ELSE missed \cup {thread[t].call}
  /\ UNCHANGED <<execs, calls, kernel, collector>>

\* Mutant: only the ring loss is counted, not the loss of the argv.
SubmitResultHalfCounted(t, a) ==
  \/ /\ Room
     /\ ring' = Append(ring, [kind |-> "result", thread |-> t, call |-> a])
     /\ UNCHANGED <<ringLost, argvLost>>
  \/ /\ ~Room
     /\ ringLost' = ringLost \cup {a}
     /\ UNCHANGED <<ring, argvLost>>

SubmitResult(t, a) ==
  \/ /\ Room
     /\ ring' = Append(ring, [kind |-> "result", thread |-> t, call |-> a])
     /\ UNCHANGED <<ringLost, argvLost>>
  \/ /\ ~Room
     /\ ringLost' = ringLost \cup {a} /\ argvLost' = argvLost \cup {a}
     /\ UNCHANGED ring

\* emit_result, when the entry found is an exec whose attempt was captured.
EmitResult(t) ==
  /\ thread[t].pc = "call" /\ inflight[t] # None
  /\ thread' = [thread EXCEPT ![t].pc = "emit"]
  /\ \/ /\ inflight[t] \in execs /\ attempts[t] # None
        /\ SubmitResult(t, attempts[t])
        /\ attempts' = [attempts EXCEPT ![t] = None]
     \/ /\ inflight[t] \notin execs \/ attempts[t] = None
        /\ UNCHANGED <<attempts, ring, ringLost, argvLost>>
  /\ UNCHANGED <<execs, calls, inflight, inflightLost, missed, collector>>

\* Mutant: a Syscall record without room is dropped uncounted.
EmitSyscallUncounted(t) ==
  /\ thread[t].pc = "emit"
  /\ thread' = [thread EXCEPT ![t] = User]
  /\ inflight' = [inflight EXCEPT ![t] = None]
  /\ ring' = IF Room THEN Append(ring, [kind |-> "syscall", thread |-> t,
                                        call |-> inflight[t]]) ELSE ring
  /\ UNCHANGED <<execs, calls, attempts, ringLost, argvLost, inflightLost, missed,
                 collector>>

EmitSyscall(t) ==
  /\ thread[t].pc = "emit"
  /\ thread' = [thread EXCEPT ![t] = User]
  /\ inflight' = [inflight EXCEPT ![t] = None]
  /\ \/ /\ Room
        /\ ring' = Append(ring, [kind |-> "syscall", thread |-> t, call |-> inflight[t]])
        /\ UNCHANGED ringLost
     \/ /\ ~Room
        /\ ringLost' = ringLost \cup {inflight[t]}
        /\ UNCHANGED ring
  /\ UNCHANGED <<execs, calls, attempts, argvLost, inflightLost, missed, collector>>

-----------------------------------------------------------------------------
(* The collector thread.                                                    *)

Gap(reason, c) == gaps' = gaps \cup {[reason |-> reason, call |-> c]}

\* Mutant: one attempt more than the capacity is kept.
AcceptAttemptOver(r) ==
  /\ Cardinality(pending) <= PendingSlots
  /\ pending' = pending \cup {<<r.thread, r.call>>}
  /\ UNCHANGED <<gaps, completed, lines>>

AcceptAttempt(r) ==
  /\ \/ /\ Cardinality(pending) < PendingSlots
        /\ pending' = pending \cup {<<r.thread, r.call>>}
        /\ UNCHANGED gaps
     \/ /\ Cardinality(pending) >= PendingSlots
        /\ Gap("capacity", r.call)
        /\ UNCHANGED pending
  /\ UNCHANGED <<completed, lines>>

AcceptResult(r) ==
  /\ \/ /\ <<r.thread, r.call>> \in pending
        /\ pending' = pending \ {<<r.thread, r.call>>}
        /\ completed' = [completed EXCEPT ![r.thread] = r.call]
        /\ UNCHANGED gaps
     \/ /\ <<r.thread, r.call>> \notin pending
        /\ Gap("missing", r.call)
        /\ UNCHANGED <<pending, completed>>
  /\ UNCHANGED lines

\* Whatever exec completed last under this pid_tgid lends its argv.
AcceptSyscall(r) ==
  /\ lines' = lines \cup {[call |-> r.call, argv |-> completed[r.thread]]}
  /\ completed' = [completed EXCEPT ![r.thread] = None]
  /\ UNCHANGED <<pending, gaps>>

Accept ==
  /\ ring # <<>>
  /\ ring' = Tail(ring)
  /\ LET r == Head(ring) IN
       \/ r.kind = "attempt" /\ AcceptAttempt(r)
       \/ r.kind = "result" /\ AcceptResult(r)
       \/ r.kind = "syscall" /\ AcceptSyscall(r)
  /\ UNCHANGED <<thread, execs, calls, inflight, attempts, ringLost, argvLost,
                 inflightLost, missed>>

TimedOut(due) == gaps' = gaps \cup {[reason |-> "timeout", call |-> p[2]] : p \in due}

\* Mutant: a timed out attempt is reported and kept.
ExpireAndKeep ==
  /\ ring = <<>>
  /\ \E due \in SUBSET pending : due # {} /\ TimedOut(due)
  /\ UNCHANGED <<thread, execs, calls, kernel, missed, pending, completed, lines>>

\* Entries older than the timeout go, but only once the ring was found empty. A
\* record submitted just then changes nothing here and may as well come later.
Expire ==
  /\ ring = <<>>
  /\ \E due \in SUBSET pending :
       due # {} /\ pending' = pending \ due /\ TimedOut(due)
  /\ UNCHANGED <<thread, execs, calls, kernel, missed, completed, lines>>

-----------------------------------------------------------------------------
Init ==
  /\ thread = [t \in Threads |-> User]
  /\ execs = {} /\ calls = 0
  /\ inflight = [t \in Threads |-> None]
  /\ attempts = [t \in Threads |-> None]
  /\ ring = <<>>
  /\ ringLost = {} /\ argvLost = {} /\ inflightLost = {}
  /\ missed = {}
  /\ pending = {}
  /\ completed = [t \in Threads |-> None]
  /\ gaps = {} /\ lines = {}

Syscall(t) ==
  \/ EnterFiltered(t) \/ Exit(t) \/ Spawn(t) \/ Execve(t)
  \/ \E c \in Calls : Enter(t, c) \/ EnterExec(t, c)
  \/ ExitUnseen(t) \/ EmitResult(t) \/ EmitSyscall(t)

Next == (\E t \in Threads : Syscall(t)) \/ Accept \/ Expire

Spec == Init /\ [][Next]_vars

-----------------------------------------------------------------------------
(* Properties.                                                              *)

Record == [kind : {"attempt", "result", "syscall"}, thread : Threads, call : Calls]

TypeOK ==
  /\ thread \in [Threads -> [pc : {"user", "call", "emit", "dead"},
                             call : Calls \cup {None}, exec : BOOLEAN]]
  /\ calls \in 0 .. MaxCalls
  /\ execs \subseteq 1 .. calls
  /\ inflight \in [Threads -> Calls \cup {None}]
  /\ attempts \in [Threads -> execs \cup {None}]
  /\ ring \in Seq(Record) /\ Len(ring) <= RingSlots
  /\ {ringLost, argvLost, inflightLost, missed} \subseteq SUBSET Calls
  /\ pending \subseteq Threads \X execs /\ Cardinality(pending) <= PendingSlots
  /\ completed \in [Threads -> execs \cup {None}]
  /\ gaps \subseteq [reason : {"capacity", "timeout", "missing"}, call : execs]
  /\ lines \subseteq [call : Calls, argv : execs \cup {None}]

Gapped(c) == \E g \in gaps : g.call = c

\* No argv vanishes: each captured one is still on its way, was attached to a
\* record, or its loss shows as a gap or a counter.
AttemptsAccounted ==
  \A c \in execs :
    \/ \E i \in DOMAIN ring : ring[i].kind = "attempt" /\ ring[i].call = c
    \/ \E t \in Threads : <<t, c>> \in pending \/ completed[t] = c
    \/ \E l \in lines : l.argv = c
    \/ Gapped(c) \/ c \in ringLost \cup argvLost

\* A result finds its attempt, unless the attempt was given up and reported.
NoOrphanResult ==
  \A g \in gaps : g.reason = "missing" =>
    \E h \in gaps : h.call = g.call /\ h.reason \in {"capacity", "timeout"}

\* Gap and argv exclude each other, and a call gets the argv of an exec that is
\* not its own only if a full ring cost that exec its record: completed_execs keeps
\* the argv for the next record of the thread, whichever it is (runtime.rs:955-958).
GapOrArgv ==
  \A l \in lines :
    /\ ~Gapped(l.argv)
    /\ l.argv \in {None, l.call} \cup ringLost

\* An exec that is output without its arguments has a loss on record for it.
MissingArgvHasReason ==
  \A l \in lines :
    l.call \in execs /\ l.argv # l.call => Gapped(l.call) \/ l.call \in argvLost

\* syscall.rs:143-145: a call whose sys_exit finds no entry was filtered, or its
\* entry found no room and was counted. An exec by a thread that is not the
\* leader returns under the leader's id and is neither.
LostEntriesAreCounted == missed \subseteq inflightLost
=============================================================================
