----------------------------- MODULE OutputQueue -----------------------------
(***************************************************************************)
(* The output pipeline of the collector: records wait in an AdaptiveQueue  *)
(* whose limit grows from Initial to Max bytes when a record needs room or *)
(* after three windows of high use, and shrinks again after a long time of *)
(* low use, and are written to stdout one by one.                          *)
(*                                                                         *)
(* The daemon drains the queue after each record it puts in; a caller of   *)
(* the library may call the operations in any order, and does so here. A   *)
(* write may fail at any time, and a later one succeed. What a record says *)
(* is left out, its size is not.                                           *)
(***************************************************************************)
EXTENDS Naturals, Sequences

CONSTANTS
  Initial,      (* initial_bytes; 64 MiB in the daemon                       *)
  Max,          (* max_bytes; 512 MiB in the daemon                          *)
  Sizes,        (* sizes of a record                                         *)
  LowDuration,  (* LOW_WATERMARK_DURATION; ten minutes in the code           *)
  Windows,      (* lengths of an observed window                             *)
  MaxRecords    (* bound: records offered                                    *)

ASSUME OutputAssumption ==
  /\ {Initial, Max, LowDuration} \cup Sizes \cup Windows \subseteq Nat \ {0}
  /\ Initial <= Max
  /\ MaxRecords \in Nat

VARIABLES
  entries,   (* AdaptiveQueue::entries: number and size of each record       *)
  used,      (* used_bytes                                                   *)
  limit,     (* limit_bytes                                                  *)
  state,     (* QueueState                                                   *)
  high,      (* consecutive_high_windows                                     *)
  low,       (* low_watermark_elapsed                                        *)
  dropped,   (* dropped_total                                                *)
  stdout,    (* numbers of the records written                               *)
  offered,   (* history: records offered                                     *)
  failed     (* history: records taken out whose write failed                *)

watermarks == <<high, low>>
vars == <<entries, used, limit, state, watermarks, dropped, stdout, offered, failed>>

Smaller(a, b) == IF a <= b THEN a ELSE b
Larger(a, b) == IF a >= b THEN a ELSE b

\* State of a queue that is neither growing nor dropping.
Settled(bytes) == IF bytes = Max THEN "AtMax" ELSE "Normal"

-----------------------------------------------------------------------------
\* Mutant: the hard maximum is forgotten when the limit doubles.
GrownUncapped(bytes) == IF bytes = Max THEN Max ELSE 2 * bytes

\* grow_once: the limit it leads to.
Grown(bytes) == IF bytes = Max THEN Max ELSE Smaller(2 * bytes, Max)

GrowOnce ==
  /\ limit' = Grown(limit)
  /\ state' = IF limit' = Max THEN "AtMax" ELSE "Growing"

ShrinkOnce ==
  /\ LET candidate == Larger(limit \div 2, Initial)
     IN limit' = IF candidate >= used THEN candidate ELSE limit
  /\ state' = Settled(limit')

\* Mutant: a record is refused at the present limit.
LimitForAsItIs(required) == limit

\* try_push grows until the record fits or the maximum is reached.
LimitFor(required) ==
  LET doubled[n \in 0 .. Max] == IF n = 0 THEN limit ELSE Grown(doubled[n - 1])
  IN doubled[CHOOSE n \in 0 .. Max :
               /\ required <= doubled[n] \/ doubled[n] = Max
               /\ \A m \in 0 .. n - 1 : doubled[m] < required]

\* OutputPipeline::enqueue_*, AdaptiveQueue::try_push.
Enqueue(size) ==
  /\ offered < MaxRecords
  /\ offered' = offered + 1
  /\ LET required == used + size IN
       /\ limit' = LimitFor(required)
       /\ \/ /\ required > limit'
             /\ dropped' = dropped + 1
             /\ state' = "Dropping"
             /\ UNCHANGED <<entries, used>>
          \/ /\ required <= limit'
             /\ used' = required
             /\ entries' = Append(entries, [id |-> offered', size |-> size])
             /\ state' = IF limit' = Max THEN "AtMax"
                         ELSE IF limit' # limit THEN "Growing" ELSE state
             /\ UNCHANGED dropped
  /\ UNCHANGED <<watermarks, stdout, failed>>

\* drain_one, alone or from drain_all: the record has left the queue when its
\* write fails.
DrainOne ==
  /\ entries # <<>>
  /\ entries' = Tail(entries)
  /\ used' = used - Head(entries).size
  /\ \/ stdout' = Append(stdout, Head(entries).id) /\ UNCHANGED failed
     \/ failed' = failed + 1 /\ UNCHANGED stdout
  /\ UNCHANGED <<limit, state, watermarks, dropped, offered>>

Usage == (used * 100) \div limit

HighWindow ==
  /\ Usage >= 80
  /\ low' = 0
  /\ high' = (high + 1) % 3
  /\ IF high + 1 = 3 THEN GrowOnce ELSE UNCHANGED <<limit, state>>

LowWindow(elapsed) ==
  /\ Usage <= 25
  /\ high' = 0
  /\ IF low + elapsed >= LowDuration
       THEN low' = 0 /\ ShrinkOnce
       ELSE low' = low + elapsed /\ UNCHANGED <<limit, state>>

MiddleWindow ==
  /\ Usage \in 26 .. 79
  /\ high' = 0 /\ low' = 0
  /\ state' = Settled(limit)
  /\ UNCHANGED limit

\* observe_window. The daemon never calls it.
ObserveWindow(elapsed) ==
  /\ HighWindow \/ LowWindow(elapsed) \/ MiddleWindow
  /\ UNCHANGED <<entries, used, dropped, stdout, offered, failed>>

-----------------------------------------------------------------------------
Init ==
  /\ entries = <<>> /\ used = 0 /\ limit = Initial /\ state = "Normal"
  /\ high = 0 /\ low = 0 /\ dropped = 0
  /\ stdout = <<>> /\ offered = 0 /\ failed = 0

Next ==
  \/ \E size \in Sizes : Enqueue(size)
  \/ DrainOne
  \/ \E elapsed \in Windows : ObserveWindow(elapsed)

Spec == Init /\ [][Next]_vars

-----------------------------------------------------------------------------
(* Properties.                                                              *)

Buffer == INSTANCE BoundedFifo WITH
  Capacity <- Max, pending <- entries, delivered <- stdout,
  refused <- dropped, lost <- failed

\* The types, and with them what the parts of the queue say of each other: the
\* bytes in use are those of the entries and fit under a limit between Initial
\* and Max, and a state that speaks of the maximum is told only at the maximum.
TypeOK ==
  /\ entries \in Seq([id : 1 .. MaxRecords, size : Sizes])
  /\ used = Buffer!Bytes(entries)
  /\ used <= limit /\ limit \in Initial .. Max
  /\ state \in {"Normal", "Growing", "AtMax", "Dropping"}
  /\ state \in {"AtMax", "Dropping"} => limit = Max
  /\ state = "Growing" => limit \in Initial + 1 .. Max - 1
  /\ state = "Normal" => limit < Max \/ Initial = Max
  /\ high \in 0 .. 2 /\ low \in 0 .. LowDuration - 1
  /\ {dropped, offered, failed} \subseteq 0 .. MaxRecords
  /\ stdout \in Seq(1 .. MaxRecords)

\* docs/configuration.md:36-38, adaptive_queue.rs:65-66: whatever growing and
\* shrinking went before, a record is dropped at the hard maximum and nowhere
\* else, every drop is counted, and the records written keep their order with
\* no gap but for the one a failed write takes.
ImplementsFifo == Buffer!Spec
=============================================================================
