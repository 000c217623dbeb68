---------------------------- MODULE StatusCounters ----------------------------
(***************************************************************************)
(* The counters of a status record. The kernel programs count per CPU in   *)
(* EVENT_COUNTERS, the collector thread counts in atomics, and the main    *)
(* thread reads both, one counter after the other while they move, checks  *)
(* what it read against the invariants the counters must satisfy, and      *)
(* gives up the run if they do not hold. What giving up leads to is action *)
(* StatusFails of Daemon.                                                  *)
(*                                                                         *)
(* A kernel program or the collector that has decided what became of a     *)
(* record holds the counters it has yet to increment in order: every       *)
(* increment is a step. Counters that no invariant mentions are left out,  *)
(* and so are the counts per permission, which follow the watch matches.   *)
(***************************************************************************)
EXTENDS Naturals, Sequences, FiniteSets, SequencesExt

CONSTANTS
  CpuCount,    (* CPUs                                                      *)
  MaxRecords,  (* bound: records the kernel programs produce                *)
  RingSlots,   (* bound: records the ring buffer holds                      *)
  MaxTries     (* kernel samples taken before giving up; 16 in the code     *)

ASSUME StatusAssumption ==
  {CpuCount, MaxRecords, RingSlots, MaxTries} \subseteq Nat \ {0}

VARIABLES
  kernel,    (* EVENT_COUNTERS, summed over the CPUs                        *)
  program,   (* per CPU: increments the running program has yet to make     *)
  ring,      (* EVENTS: the record types in it                              *)
  counters,  (* CollectorCounters                                           *)
  todo,      (* increments the collector has yet to make for its record     *)
  waiting,   (* attempts in ExecPending                                     *)
  alive,     (* the collector thread runs                                   *)
  at,        (* the next counter the main thread reads, 0 between statuses  *)
  sample,    (* HealthCounters: what it has read                            *)
  tries,     (* kernel samples taken for this status                        *)
  rejected,  (* a status was refused: the select loop is left               *)
  disturbed  (* history: a counter moved while this status was taken        *)

programs == <<kernel, program, ring>>
collector == <<counters, todo, waiting, alive>>
sampler == <<at, sample, tries, rejected>>
vars == <<programs, collector, sampler, disturbed>>

Cpus == 1 .. CpuCount
\* The invariants know events_output_total and queue_dropped_total by their sum,
\* here "done".
\* Results, process events and Syscall records are told apart when consumed.
RecordTypes == {"attempt", "other"}
KernelSlots == <<"seen", "submitted", "dropped", "captured">>
CollectorSlots == <<"consumed", "done", "gaps", "suppressed",
                    "candidates", "matches">>
KernelCounters == ToSet(KernelSlots)
CollectorCounters == ToSet(CollectorSlots)
Zero(names) == [n \in names |-> 0]
Nothing == Zero(KernelCounters \cup CollectorCounters)

-----------------------------------------------------------------------------
(* The kernel programs. One runs at a time on each CPU.                     *)

Count(name) == kernel' = [kernel EXCEPT ![name] = @ + 1]

Captures(type) == IF type = "attempt" THEN <<"captured">> ELSE <<>>

\* Mutant: a record without room is counted as submitted.
OutputUnchecked(cpu, type) ==
  /\ ring' = IF Len(ring) < RingSlots THEN Append(ring, type) ELSE ring
  /\ program' = [program EXCEPT ![cpu] = <<"submitted">> \o Captures(type)]

\* EVENTS.output: the record goes into the ring and is then counted as
\* submitted, or finds no room and is then counted as dropped.
Output(cpu, type) ==
  \/ /\ Len(ring) < RingSlots
     /\ ring' = Append(ring, type)
     /\ program' = [program EXCEPT ![cpu] = <<"submitted">> \o Captures(type)]
  \/ /\ Len(ring) = RingSlots
     /\ program' = [program EXCEPT ![cpu] = <<"dropped">>]
     /\ UNCHANGED ring

\* A program has a record ready and counts it as seen.
Produce(cpu, type) ==
  /\ program[cpu] = <<>>
  /\ kernel.seen < MaxRecords
  /\ Count("seen")
  /\ program' = [program EXCEPT ![cpu] = <<type>>]
  /\ UNCHANGED ring

Submit(cpu) ==
  /\ program[cpu] # <<>> /\ Head(program[cpu]) \in RecordTypes
  /\ Output(cpu, Head(program[cpu]))
  /\ UNCHANGED kernel

CountOutcome(cpu) ==
  /\ program[cpu] # <<>> /\ Head(program[cpu]) \in KernelCounters
  /\ Count(Head(program[cpu]))
  /\ program' = [program EXCEPT ![cpu] = Tail(@)]
  /\ UNCHANGED ring

-----------------------------------------------------------------------------
(* The collector thread. "end" stands for a failure of stdout.              *)

GapWrites == {<<"gaps">>, <<"gaps", "done">>, <<"gaps", "end">>}
AuditWrites == {<<"done">>, <<"end">>}

\* Mutant: a match is counted before the candidate it is a match of.
WatchCountsSwapped == {<<"matches">>, <<"matches", "candidates">>}

\* A call that only syscall rules cover is no watch candidate; a candidate may
\* match a syscall rule or a watch.
WatchCounts == {<<>>, <<"candidates">>, <<"candidates", "matches">>}

Matched == {w \o s \o a : w \in WatchCounts, s \in {<<>>, <<"suppressed">>},
                          a \in AuditWrites}

\* What process_collected_records may count for a Syscall record: no engine or
\* bad flags; no path, for a candidate with a gap; no rule; or a match.
SyscallCounts ==
  {<<>>, <<"candidates">>} \cup GapWrites
  \cup {<<"candidates">> \o g : g \in GapWrites} \cup Matched

\* What CollectorRuntime::accept leads to. A record that does not decode, an
\* attempt beyond the capacity and a result without attempt are gaps; a process
\* event counts nothing.
Accepted(type) ==
  \/ todo' \in GapWrites /\ UNCHANGED waiting
  \/ type = "attempt" /\ todo' = <<>> /\ waiting' = waiting + 1
  \/ type = "other" /\ waiting > 0 /\ todo' = <<>> /\ waiting' = waiting - 1
  \/ type = "other" /\ todo' \in SyscallCounts /\ UNCHANGED waiting

Consume ==
  /\ alive /\ todo = <<>> /\ ring # <<>>
  /\ ring' = Tail(ring)
  /\ counters' = [counters EXCEPT !.consumed = @ + 1]
  /\ Accepted(Head(ring))
  /\ UNCHANGED alive

\* An attempt times out when the ring was found empty.
Expire ==
  /\ alive /\ todo = <<>> /\ ring = <<>> /\ waiting > 0
  /\ waiting' = waiting - 1
  /\ todo' \in GapWrites
  /\ UNCHANGED <<ring, counters, alive>>

\* One counter more, or the end of the thread.
CountNext ==
  /\ alive /\ todo # <<>>
  /\ todo' = Tail(todo)
  /\ \/ /\ Head(todo) = "end"
        /\ alive' = FALSE
        /\ UNCHANGED counters
     \/ /\ Head(todo) # "end"
        /\ counters' = [counters EXCEPT ![Head(todo)] = @ + 1]
        /\ UNCHANGED alive
  /\ UNCHANGED <<ring, waiting>>

-----------------------------------------------------------------------------
(* The main thread takes a status.                                          *)

Apply == Len(KernelSlots) + 1
Verdict == Apply + Len(CollectorSlots) + 1

Add(name, n) == sample' = [sample EXCEPT ![name] = @ + n]

Begin ==
  /\ at = 0 /\ ~rejected
  /\ at' = 1 /\ tries' = 1
  /\ sample' = Nothing
  /\ disturbed' = \E cpu \in Cpus : program[cpu] # <<>>
  /\ UNCHANGED rejected

\* read_kernel_counters: slot after slot, each for all CPUs at once.
ReadKernel ==
  /\ at \in 1 .. Apply - 1
  /\ LET slot == KernelSlots[at] IN Add(slot, kernel[slot])
  /\ at' = at + 1
  /\ UNCHANGED <<tries, rejected, disturbed>>

Balanced == sample.seen = sample.submitted + sample.dropped

\* Mutant: the sample is taken again until it is balanced.
RetryForever ==
  /\ at' = 1 /\ tries' = tries
  /\ sample' = Nothing
  /\ UNCHANGED rejected

\* Mutant: one sample too many.
RetryOnceMore ==
  /\ tries <= MaxTries
  /\ tries' = tries + 1 /\ at' = 1
  /\ sample' = Nothing
  /\ UNCHANGED rejected

Retry ==
  \/ /\ tries < MaxTries
     /\ tries' = tries + 1 /\ at' = 1
     /\ sample' = Nothing
     /\ UNCHANGED rejected
  \/ /\ tries = MaxTries
     /\ rejected' = TRUE /\ at' = 0
     /\ UNCHANGED <<sample, tries>>

\* apply_kernel_sample accepts a balanced sample only.
ApplySample ==
  /\ at = Apply
  /\ \/ /\ Balanced
        /\ at' = at + 1 /\ tries' = 0
        /\ UNCHANGED <<sample, rejected>>
     \/ ~Balanced /\ Retry
  /\ UNCHANGED disturbed

\* CollectorCounters::snapshot, load by load.
ReadCollector ==
  /\ at \in Apply + 1 .. Verdict - 1
  /\ LET name == CollectorSlots[at - Apply] IN Add(name, counters[name])
  /\ at' = at + 1
  /\ UNCHANGED <<tries, rejected, disturbed>>

\* Mutant: records that found no room in the ring are forgotten.
AllInvariantsHoldUndropped(s) ==
  /\ s.seen = s.submitted
  /\ s.consumed <= s.submitted
  /\ s.done <= s.consumed + s.gaps
  /\ s.suppressed <= s.captured
  /\ s.matches <= s.candidates

AllInvariantsHold(s) ==
  /\ s.seen = s.submitted + s.dropped
  /\ s.consumed <= s.submitted
  /\ s.done <= s.consumed + s.gaps
  /\ s.suppressed <= s.captured
  /\ s.matches <= s.candidates

\* The status is written, or refused.
Decide ==
  /\ at = Verdict
  /\ at' = 0
  /\ \/ /\ AllInvariantsHold(sample)
        /\ sample' = Nothing /\ disturbed' = FALSE
        /\ UNCHANGED <<tries, rejected>>
     \/ /\ ~AllInvariantsHold(sample)
        /\ rejected' = TRUE
        /\ UNCHANGED <<sample, tries, disturbed>>

-----------------------------------------------------------------------------
Init ==
  /\ kernel = Zero(KernelCounters)
  /\ program = [c \in Cpus |-> <<>>]
  /\ ring = <<>>
  /\ counters = Zero(CollectorCounters)
  /\ todo = <<>> /\ waiting = 0 /\ alive = TRUE
  /\ at = 0 /\ tries = 0 /\ rejected = FALSE
  /\ sample = Nothing
  /\ disturbed = FALSE

Program(cpu) ==
  /\ (\E type \in RecordTypes : Produce(cpu, type)) \/ Submit(cpu) \/ CountOutcome(cpu)
  /\ UNCHANGED collector

Collect == (Consume \/ Expire \/ CountNext) /\ UNCHANGED <<kernel, program>>

\* Kernel and collector move on, and with them what a status in progress reads.
Move ==
  /\ ~rejected
  /\ (\E cpu \in Cpus : Program(cpu)) \/ Collect
  /\ disturbed' = (disturbed \/ at # 0)
  /\ UNCHANGED sampler

Status ==
  /\ Begin \/ ReadKernel \/ ApplySample \/ ReadCollector \/ Decide
  /\ UNCHANGED <<programs, collector>>

Next == Move \/ Status

\* The main thread is scheduled; it does not begin a status unless asked.
Spec == Init /\ [][Next]_vars /\ WF_vars(at # 0 /\ Status)

-----------------------------------------------------------------------------
(* Properties.                                                              *)

TypeOK ==
  /\ kernel \in [KernelCounters -> 0 .. MaxRecords]
  /\ program \in [Cpus -> {<<>>, <<"submitted">>, <<"submitted", "captured">>,
                           <<"captured">>, <<"dropped">>} \cup {<<t>> : t \in RecordTypes}]
  /\ ring \in Seq(RecordTypes) /\ Len(ring) <= RingSlots
  /\ counters \in [CollectorCounters -> Nat]
  /\ todo \in Seq(CollectorCounters \cup {"end"})
  /\ waiting \in 0 .. MaxRecords
  /\ at \in 0 .. Verdict /\ tries \in 0 .. MaxTries
  /\ sample \in [KernelCounters \cup CollectorCounters -> Nat]
  /\ {alive, rejected, disturbed} \subseteq BOOLEAN

\* Programs that have put a record into the ring and not yet counted it.
Uncounted == Cardinality({c \in Cpus : program[c] # <<>> /\ Head(program[c]) = "submitted"})

\* What was submitted was consumed or is in the ring: no record is counted
\* twice or not at all, but submitted lags behind consumed while a program
\* that was overtaken by the collector has yet to count (syscall.rs:187-190).
SubmittedIsConserved ==
  kernel.submitted + Uncounted = counters.consumed + Len(ring)

\* The order the collector counts in keeps the invariants of its own counters
\* at every moment, also while it is blocked in the middle of a record.
CollectorCountsInOrder ==
  /\ counters.done <= counters.consumed + counters.gaps
  /\ counters.matches <= counters.candidates

\* A status is refused for two reasons only: counters moved while it was taken,
\* or more matches were counted as suppressed than argv were captured.
RefusalHasACause ==
  rejected => disturbed \/ sample.suppressed > sample.captured

\* However busy kernel and collector are, a status comes to an end.
StatusEnds == at # 0 ~> at = 0

\* specs/001-auditd-ebpf-replacement/contracts/health-and-logging.md: the
\* invariants must hold; a status taken while nothing moves is not refused.
UndisturbedStatusHolds == rejected => disturbed
=============================================================================
