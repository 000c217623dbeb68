---------------------------- MODULE DaemonProofs ----------------------------
(***************************************************************************)
(* Proofs about Daemon for every ring size: its safety invariants,         *)
(* that the lifecycle marker keeps the promise of module Lifecycle, and    *)
(* that a run with a stop signal only gets closer to its end.              *)
(***************************************************************************)
EXTENDS Daemon, TLAPS

\* Where the main thread is between two milestones of a run.
Reporting == {"attach", "gap"}
Collecting == {"start", "status", "loop", "reload", "detach", "stop", "drain"}
Closing == {"final", "clean_temp", "clean_rename", "clean_sync"}
Marking == {"dirty_temp", "dirty_rename", "dirty_sync"}

BothDirty == marker = "dirty" /\ synced = "dirty"

\* The marker is dirty on disk from before the first event is accepted until
\* after the drain, and as long as an unclean run is unreported.
MarkerInv ==
  /\ main = "dirty_sync" => marker = "dirty"
  /\ main \in Reporting \cup Collecting => BothDirty
  /\ owed => BothDirty
  /\ main = "clean_sync" => marker = "clean"

\* Events are open only from the first attach to the drain; a run that owes a
\* report knows it from the marker it read, and gives it before it collects.
RunInv ==
  /\ open => main \in Reporting \cup Collecting
  /\ attached => open /\ main \notin {"stop", "drain"}
  /\ main \in Marking \cup Reporting => (owed => previousDirty)
  /\ main \in Collecting \cup Closing => ~owed
  /\ main = "down" /\ code \in {0, 8} => marker = "clean" /\ synced = "clean" /\ ~owed

\* A pass that found nothing leaves what came after its last look, and no
\* thread survives its process.
CollectorInv ==
  /\ main = "down" => collector = "none"
  /\ collector \in {"expire", "check"} /\ ~drained => ring <= late
  /\ CollectorLeavesOnlyLate

IInv == PlacesOK /\ FlagsOK /\ MarkerInv /\ RunInv /\ CollectorInv

-----------------------------------------------------------------------------
\* A run starts from nothing.
LEMMA InitEstablishes == Init => IInv
<1> SUFFICES ASSUME Init PROVE IInv
  OBVIOUS
<1> USE RingAssumption DEF Init, NoCode
<1>1. PlacesOK
  BY DEF PlacesOK
<1>2. FlagsOK
  BY DEF FlagsOK
<1>3. MarkerInv /\ RunInv /\ CollectorInv
  BY DEF CollectorInv, CollectorLeavesOnlyLate, MarkerInv, RunInv, Reporting,
     Collecting, Closing, Marking
<1> QED
  BY <1>1, <1>2, <1>3 DEF IInv

\* However a run ends, a debt or an open run finds the marker dirty.
LEMMA EndPreserves ==
  ASSUME IInv, NEW c \in {3, 4, 6, 7, Killed}, End(c),
         marker' \in {"missing", "dirty", "clean"},
         synced' \in {"missing", "dirty", "clean"},
         BothDirty /\ (open \/ owed) => BothDirty'
  PROVE  IInv'
<1> USE RingAssumption DEF IInv, End, Killed
<1>1. PlacesOK'
  BY DEF PlacesOK
<1>2. FlagsOK'
  BY DEF FlagsOK
<1>3. MarkerInv'
  BY DEF MarkerInv, RunInv, BothDirty, Reporting, Collecting
<1>4. RunInv'
  BY DEF RunInv, Reporting, Collecting, Closing, Marking
<1>5. CollectorInv'
  BY DEF CollectorInv, CollectorLeavesOnlyLate
<1> QED
  BY <1>1, <1>2, <1>3, <1>4, <1>5

\* Moving on with an untouched disk keeps the invariant between places that it
\* treats alike.
LEMMA GotoPreserves ==
  ASSUME IInv, NEW next, Goto(next), UNCHANGED disk,
         <<main, next>> \in {<<"load", "read">>, <<"dirty_temp", "dirty_rename">>,
                             <<"attach", "gap">>, <<"status", "loop">>,
                             <<"reload", "loop">>, <<"loop", "detach">>,
                             <<"gap", "start">>, <<"final", "clean_temp">>,
                             <<"clean_temp", "clean_rename">>},
         main = "gap" => ~previousDirty
  PROVE  IInv'
<1> USE RingAssumption DEF IInv
<1>0. Goto(next) /\ UNCHANGED disk /\ (main = "gap" => ~previousDirty)
  OBVIOUS
<1>5. \/ main = "load" /\ next = "read"
      \/ main = "dirty_temp" /\ next = "dirty_rename"
      \/ main = "attach" /\ next = "gap"
      \/ main = "status" /\ next = "loop"
      \/ main = "reload" /\ next = "loop"
      \/ main = "loop" /\ next = "detach"
      \/ main = "gap" /\ next = "start"
      \/ main = "final" /\ next = "clean_temp"
      \/ main = "clean_temp" /\ next = "clean_rename"
  OBVIOUS
<1>1. PlacesOK'
  BY <1>0, <1>5 DEF PlacesOK, Goto, disk, kernel, thread
<1>2. FlagsOK'
  BY <1>0 DEF FlagsOK, Goto, kernel, thread, signals
<1>3. MarkerInv' /\ RunInv'
  BY <1>0, <1>5 DEF MarkerInv, RunInv, BothDirty, Reporting, Collecting, Closing,
     Marking, Goto, disk, kernel
<1>4. CollectorInv'
  BY <1>0 DEF CollectorInv, CollectorLeavesOnlyLate, Goto, kernel, thread
<1> QED
  BY <1>1, <1>2, <1>3, <1>4

\* A step of the main thread up to the first event.
LEMMA StartupPreserves ==
  ASSUME IInv, Start \/ Load \/ ReadMarker \/ WriteDirty \/ Attach
  PROVE  IInv'
<1> USE RingAssumption DEF IInv
<1>1. CASE Start
  <2>1. PlacesOK'
    BY <1>1 DEF PlacesOK, Start, disk, kernel, thread, signals
  <2>2. FlagsOK'
    BY <1>1 DEF FlagsOK, Start, disk, kernel, thread, signals
  <2>3. MarkerInv'
    BY <1>1 DEF MarkerInv, RunInv, BothDirty, Reporting, Collecting, Closing,
       Marking, Start, disk, kernel, thread, signals
  <2>4. RunInv'
    BY <1>1 DEF MarkerInv, RunInv, BothDirty, Reporting, Collecting, Closing,
       Marking, Start, disk, kernel, thread, signals
  <2>5. CollectorInv'
    BY <1>1 DEF CollectorInv, CollectorLeavesOnlyLate, PlacesOK, Start, disk,
       kernel, thread, signals
  <2> QED
    BY <2>1, <2>2, <2>3, <2>4, <2>5
<1>2. CASE Load
  <2>1. CASE Goto("read")
    BY <1>2, <2>1, GotoPreserves DEF Load
  <2>2. CASE \E c \in {3, 6} : End(c)
    BY <1>2, <2>2, EndPreserves DEF Load, PlacesOK, BothDirty, disk
  <2> QED
    BY <1>2, <2>1, <2>2 DEF Load
<1>3. CASE ReadMarker /\ End(4)
  BY <1>3, EndPreserves DEF ReadMarker, PlacesOK, BothDirty, disk
<1>4. CASE ReadMarker /\ ~End(4)
  <2>0. /\ UNCHANGED <<marker, synced, outcome, code, ring, late, collector>>
        /\ UNCHANGED <<attached, stop, hup, term, open, owed, drained, stdoutFailed>>
        /\ main = "read" /\ main' = "dirty_temp"
        /\ previousDirty' \in BOOLEAN /\ (marker = "dirty" => previousDirty')
    BY <1>4 DEF ReadMarker, disk, kernel, thread, signals
  <2>1. PlacesOK'
    BY <2>0 DEF PlacesOK
  <2>2. FlagsOK'
    BY <2>0 DEF FlagsOK
  <2>3. MarkerInv'
    BY <2>0 DEF MarkerInv, RunInv, BothDirty, Reporting, Collecting, Closing,
       Marking
  <2>4. RunInv'
    BY <2>0 DEF MarkerInv, RunInv, BothDirty, Reporting, Collecting, Closing,
       Marking
  <2>5. CollectorInv'
    BY <2>0 DEF CollectorInv, CollectorLeavesOnlyLate, PlacesOK
  <2> QED
    BY <2>1, <2>2, <2>3, <2>4, <2>5
<1>5. CASE WriteDirty /\ End(4)
  <2>1. /\ marker' \in {marker, "dirty"} /\ synced' \in {synced, marker}
        /\ BothDirty => BothDirty'
    BY <1>5 DEF WriteDirty, WriteMarker, BothDirty, disk
  <2> QED
    BY <1>5, <2>1, EndPreserves DEF PlacesOK
<1>6. CASE WriteDirty /\ Goto("dirty_rename") /\ UNCHANGED disk
  BY <1>6, GotoPreserves DEF WriteDirty, WriteMarker, Goto, End
<1>7. CASE /\ WriteDirty /\ ~End(4)
           /\ main # "dirty_temp"
  <2>1. PlacesOK'
    BY <1>7 DEF PlacesOK, WriteDirty, WriteMarker, disk, kernel, thread,
       signals, Goto
  <2>2. FlagsOK'
    BY <1>7 DEF FlagsOK, WriteDirty, WriteMarker, disk, kernel, thread,
       signals, Goto
  <2>3. MarkerInv'
    BY <1>7 DEF MarkerInv, RunInv, BothDirty, Reporting, Collecting, Closing,
       Marking, WriteDirty, WriteMarker, disk, kernel, thread, signals, Goto
  <2>4. RunInv'
    BY <1>7 DEF MarkerInv, RunInv, BothDirty, Reporting, Collecting, Closing,
       Marking, WriteDirty, WriteMarker, disk, kernel, thread, signals, Goto
  <2>5. CollectorInv'
    BY <1>7 DEF CollectorInv, CollectorLeavesOnlyLate, PlacesOK, WriteDirty,
       WriteMarker, disk, kernel, thread, signals, Goto
  <2> QED
    BY <2>1, <2>2, <2>3, <2>4, <2>5
<1>8. CASE Attach
  <2>1. PlacesOK'
    BY <1>8 DEF PlacesOK, Attach, disk, kernel, thread, signals
  <2>2. FlagsOK'
    BY <1>8 DEF FlagsOK, Attach, disk, kernel, thread, signals
  <2>3. MarkerInv'
    BY <1>8 DEF MarkerInv, RunInv, BothDirty, Reporting, Collecting, Closing,
       Marking, Attach, disk, kernel, thread, signals
  <2>4. RunInv'
    BY <1>8 DEF MarkerInv, RunInv, BothDirty, Reporting, Collecting, Closing,
       Marking, Attach, disk, kernel, thread, signals
  <2>5. CollectorInv'
    BY <1>8 DEF CollectorInv, CollectorLeavesOnlyLate, PlacesOK, Attach, disk,
       kernel, thread, signals
  <2> QED
    BY <2>1, <2>2, <2>3, <2>4, <2>5
<1> QED
  BY <1>1, <1>2, <1>3, <1>4, <1>5, <1>6, <1>7, <1>8 DEF WriteDirty, WriteMarker

\* A step of the main thread from the attach to the select loop, and in it.
LEMMA RunningPreserves ==
  ASSUME IInv, \/ Prepare \/ ReportUnclean \/ StartCollector \/ InitialStatus
               \/ StatusFails \/ TakeReload \/ FinishReload \/ TakeStop
  PROVE  IInv'
<1> USE RingAssumption DEF IInv
<1>1. CASE \E c \in {6, 7} : End(c) /\ UNCHANGED disk
  BY <1>1, EndPreserves DEF PlacesOK, BothDirty, disk
<1>2. CASE \/ Prepare /\ Goto("gap")
           \/ ReportUnclean /\ ~previousDirty
           \/ InitialStatus /\ Goto("loop")
           \/ StatusFails \/ FinishReload
  BY <1>2, GotoPreserves DEF Prepare, ReportUnclean, InitialStatus, StatusFails,
     FinishReload
<1>3. CASE ReportUnclean /\ previousDirty /\ ~End(7)
  <2>0. /\ UNCHANGED <<marker, synced, outcome, code, ring, late, collector>>
        /\ UNCHANGED <<previousDirty, attached, stop, hup, term, open, drained, stdoutFailed>>
        /\ main = "gap" /\ main' = "start" /\ owed' = FALSE
    BY <1>3 DEF ReportUnclean, disk, kernel, thread, signals
  <2>1. PlacesOK'
    BY <2>0 DEF PlacesOK
  <2>2. FlagsOK'
    BY <2>0 DEF FlagsOK
  <2>3. MarkerInv'
    BY <2>0 DEF MarkerInv, RunInv, BothDirty, Reporting, Collecting, Closing,
       Marking
  <2>4. RunInv'
    BY <2>0 DEF MarkerInv, RunInv, BothDirty, Reporting, Collecting, Closing,
       Marking
  <2>5. CollectorInv'
    BY <2>0 DEF CollectorInv, CollectorLeavesOnlyLate, PlacesOK
  <2> QED
    BY <2>1, <2>2, <2>3, <2>4, <2>5
<1>4. CASE StartCollector
  <2>1. PlacesOK'
    BY <1>4 DEF PlacesOK, StartCollector, disk, kernel, thread, signals
  <2>2. FlagsOK'
    BY <1>4 DEF FlagsOK, StartCollector, disk, kernel, thread, signals
  <2>3. MarkerInv'
    BY <1>4 DEF MarkerInv, RunInv, BothDirty, Reporting, Collecting, Closing,
       Marking, StartCollector, disk, kernel, thread, signals
  <2>4. RunInv'
    BY <1>4 DEF MarkerInv, RunInv, BothDirty, Reporting, Collecting, Closing,
       Marking, StartCollector, disk, kernel, thread, signals
  <2>5. CollectorInv'
    BY <1>4 DEF CollectorInv, CollectorLeavesOnlyLate, PlacesOK,
       StartCollector, disk, kernel, thread, signals
  <2> QED
    BY <2>1, <2>2, <2>3, <2>4, <2>5
<1>5. CASE TakeReload \/ TakeStop
  <2>1. PlacesOK'
    BY <1>5 DEF PlacesOK, TakeReload, TakeStop, disk, kernel, thread, signals
  <2>2. FlagsOK'
    BY <1>5 DEF FlagsOK, TakeReload, TakeStop, disk, kernel, thread, signals
  <2>3. MarkerInv'
    BY <1>5 DEF MarkerInv, RunInv, BothDirty, Reporting, Collecting, Closing,
       Marking, TakeReload, TakeStop, disk, kernel, thread, signals
  <2>4. RunInv'
    BY <1>5 DEF MarkerInv, RunInv, BothDirty, Reporting, Collecting, Closing,
       Marking, TakeReload, TakeStop, disk, kernel, thread, signals
  <2>5. CollectorInv'
    BY <1>5 DEF CollectorInv, CollectorLeavesOnlyLate, PlacesOK, TakeReload,
       TakeStop, disk, kernel, thread, signals
  <2> QED
    BY <2>1, <2>2, <2>3, <2>4, <2>5
<1> QED
  BY <1>1, <1>2, <1>3, <1>4, <1>5 DEF Prepare, ReportUnclean, InitialStatus

\* A step of the main thread on the way out.
LEMMA StoppingPreserves ==
  ASSUME IInv, Detach \/ RaiseStop \/ Drain \/ FinalStatus \/ WriteClean
  PROVE  IInv'
<1> USE RingAssumption DEF IInv
<1>1. CASE (Detach \/ FinalStatus) /\ End(7)
  BY <1>1, EndPreserves DEF Detach, FinalStatus, PlacesOK, BothDirty, disk
<1>2. CASE Detach /\ ~End(7)
  <2>1. PlacesOK'
    BY <1>2 DEF PlacesOK, Detach, disk, kernel, thread, signals
  <2>2. FlagsOK'
    BY <1>2 DEF FlagsOK, Detach, disk, kernel, thread, signals
  <2>3. MarkerInv'
    BY <1>2 DEF MarkerInv, RunInv, BothDirty, Reporting, Collecting, Closing,
       Marking, Detach, disk, kernel, thread, signals
  <2>4. RunInv'
    BY <1>2 DEF MarkerInv, RunInv, BothDirty, Reporting, Collecting, Closing,
       Marking, Detach, disk, kernel, thread, signals
  <2>5. CollectorInv'
    BY <1>2 DEF CollectorInv, CollectorLeavesOnlyLate, PlacesOK, Detach, disk,
       kernel, thread, signals
  <2> QED
    BY <2>1, <2>2, <2>3, <2>4, <2>5
<1>3. CASE RaiseStop
  <2>1. PlacesOK'
    BY <1>3 DEF PlacesOK, RaiseStop, disk, kernel, thread, signals
  <2>2. FlagsOK'
    BY <1>3 DEF FlagsOK, RaiseStop, disk, kernel, thread, signals
  <2>3. MarkerInv'
    BY <1>3 DEF MarkerInv, RunInv, BothDirty, Reporting, Collecting, Closing,
       Marking, RaiseStop, disk, kernel, thread, signals
  <2>4. RunInv'
    BY <1>3 DEF MarkerInv, RunInv, BothDirty, Reporting, Collecting, Closing,
       Marking, RaiseStop, disk, kernel, thread, signals
  <2>5. CollectorInv'
    BY <1>3 DEF CollectorInv, CollectorLeavesOnlyLate, PlacesOK, RaiseStop,
       disk, kernel, thread, signals
  <2> QED
    BY <2>1, <2>2, <2>3, <2>4, <2>5
<1>4. CASE Drain
  <2>1. PlacesOK'
    BY <1>4 DEF PlacesOK, Drain, disk, kernel, thread, signals
  <2>2. FlagsOK'
    BY <1>4 DEF FlagsOK, Drain, disk, kernel, thread, signals
  <2>3. MarkerInv'
    BY <1>4 DEF MarkerInv, RunInv, BothDirty, Reporting, Collecting, Closing,
       Marking, Drain, disk, kernel, thread, signals
  <2>4. RunInv'
    BY <1>4 DEF MarkerInv, RunInv, BothDirty, Reporting, Collecting, Closing,
       Marking, Drain, disk, kernel, thread, signals
  <2>5. CollectorInv'
    BY <1>4 DEF CollectorInv, CollectorLeavesOnlyLate, PlacesOK, Drain, disk,
       kernel, thread, signals
  <2> QED
    BY <2>1, <2>2, <2>3, <2>4, <2>5
<1>5. CASE FinalStatus /\ ~End(7)
  BY <1>5, GotoPreserves DEF FinalStatus
<1>6. CASE WriteClean /\ End(7)
  <2>1. marker' \in {marker, "clean"} /\ synced' \in {synced, marker}
    BY <1>6 DEF WriteClean, WriteMarker, disk
  <2>2. ~open /\ ~owed
    BY <1>6 DEF WriteClean, WriteMarker, RunInv, Reporting, Collecting, Closing
  <2> QED
    BY <1>6, <2>1, <2>2, EndPreserves DEF PlacesOK
<1>7. CASE WriteClean /\ ~End(7) /\ main # "clean_sync"
  <2>0. /\ UNCHANGED <<synced, outcome, code, ring, late, collector, drained, stdoutFailed>>
        /\ UNCHANGED <<previousDirty, attached, stop, hup, term, open, owed>>
        /\ \/ main = "clean_temp" /\ main' = "clean_rename" /\ marker' = marker
           \/ main = "clean_rename" /\ main' = "clean_sync" /\ marker' = "clean"
    BY <1>7 DEF WriteClean, WriteMarker, disk, kernel, thread, signals, Goto
  <2>1. PlacesOK'
    BY <2>0 DEF PlacesOK
  <2>2. FlagsOK'
    BY <2>0 DEF FlagsOK
  <2>3. MarkerInv'
    BY <2>0 DEF MarkerInv, RunInv, BothDirty, Reporting, Collecting, Closing,
       Marking
  <2>4. RunInv'
    BY <2>0 DEF MarkerInv, RunInv, BothDirty, Reporting, Collecting, Closing,
       Marking
  <2>5. CollectorInv'
    BY <2>0 DEF CollectorInv, CollectorLeavesOnlyLate, PlacesOK
  <2> QED
    BY <2>1, <2>2, <2>3, <2>4, <2>5
<1>8. CASE WriteClean /\ ~End(7) /\ main = "clean_sync"
  <2>0. /\ \E c \in {0, 8} : End(c)
        /\ marker' = "clean" /\ synced' = "clean"
    BY <1>8 DEF WriteClean, WriteMarker, MarkerInv
  <2>1. PlacesOK'
    BY <2>0 DEF PlacesOK, End
  <2>2. FlagsOK'
    BY <2>0 DEF FlagsOK, End
  <2>3. MarkerInv' /\ RunInv'
    BY <1>8, <2>0 DEF MarkerInv, RunInv, Reporting, Collecting, Closing, Marking, End
  <2>4. CollectorInv'
    BY <2>0 DEF CollectorInv, CollectorLeavesOnlyLate, End
  <2> QED
    BY <2>1, <2>2, <2>3, <2>4
<1> QED
  BY <1>1, <1>2, <1>3, <1>4, <1>5, <1>6, <1>7, <1>8

\* A step of the collector, and a record submitted to it.
LEMMA CollectorPreserves ==
  ASSUME IInv, CollectorThread \/ Submit
  PROVE  IInv'
<1> USE RingAssumption DEF IInv
<1>1. CASE Consume
  <2>1. PlacesOK'
    BY <1>1 DEF PlacesOK, Consume, disk, kernel, thread, signals, Collector,
       StdoutFails
  <2>2. FlagsOK'
    BY <1>1 DEF FlagsOK, Consume, disk, kernel, thread, signals, Collector,
       StdoutFails
  <2>3. MarkerInv'
    BY <1>1 DEF MarkerInv, RunInv, BothDirty, Reporting, Collecting, Closing,
       Marking, Consume, disk, kernel, thread, signals, Collector, StdoutFails
  <2>4. RunInv'
    BY <1>1 DEF MarkerInv, RunInv, BothDirty, Reporting, Collecting, Closing,
       Marking, Consume, disk, kernel, thread, signals, Collector, StdoutFails
  <2>5. CollectorInv'
    BY <1>1 DEF CollectorInv, CollectorLeavesOnlyLate, PlacesOK, Consume, disk,
       kernel, thread, signals, Collector, StdoutFails
  <2> QED
    BY <2>1, <2>2, <2>3, <2>4, <2>5
<1>2. CASE PollEmpty
  <2>1. PlacesOK'
    BY <1>2 DEF PlacesOK, PollEmpty, disk, kernel, thread, signals, Collector,
       StdoutFails
  <2>2. FlagsOK'
    BY <1>2 DEF FlagsOK, PollEmpty, disk, kernel, thread, signals, Collector,
       StdoutFails
  <2>3. MarkerInv'
    BY <1>2 DEF MarkerInv, RunInv, BothDirty, Reporting, Collecting, Closing,
       Marking, PollEmpty, disk, kernel, thread, signals, Collector,
       StdoutFails
  <2>4. RunInv'
    BY <1>2 DEF MarkerInv, RunInv, BothDirty, Reporting, Collecting, Closing,
       Marking, PollEmpty, disk, kernel, thread, signals, Collector,
       StdoutFails
  <2>5. CollectorInv'
    BY <1>2 DEF CollectorInv, CollectorLeavesOnlyLate, PlacesOK, PollEmpty,
       disk, kernel, thread, signals, Collector, StdoutFails
  <2> QED
    BY <2>1, <2>2, <2>3, <2>4, <2>5
<1>3. CASE Expire
  <2>1. PlacesOK'
    BY <1>3 DEF PlacesOK, Expire, disk, kernel, thread, signals, Collector,
       StdoutFails
  <2>2. FlagsOK'
    BY <1>3 DEF FlagsOK, Expire, disk, kernel, thread, signals, Collector,
       StdoutFails
  <2>3. MarkerInv'
    BY <1>3 DEF MarkerInv, RunInv, BothDirty, Reporting, Collecting, Closing,
       Marking, Expire, disk, kernel, thread, signals, Collector, StdoutFails
  <2>4. RunInv'
    BY <1>3 DEF MarkerInv, RunInv, BothDirty, Reporting, Collecting, Closing,
       Marking, Expire, disk, kernel, thread, signals, Collector, StdoutFails
  <2>5. CollectorInv'
    BY <1>3 DEF CollectorInv, CollectorLeavesOnlyLate, PlacesOK, Expire, disk,
       kernel, thread, signals, Collector, StdoutFails
  <2> QED
    BY <2>1, <2>2, <2>3, <2>4, <2>5
<1>4. CASE CheckStop
  <2>0. /\ UNCHANGED <<main, marker, synced, outcome, code, ring, late>>
        /\ UNCHANGED <<previousDirty, attached, stop, hup, term, open, owed>>
        /\ drained' \in {drained, FALSE} /\ stdoutFailed' \in {stdoutFailed, TRUE}
        /\ collector = "check"
        /\ collector' = "poll" \/ (collector' = "finished" /\ ~drained)
    BY <1>4 DEF CheckStop, disk, kernel, thread, signals, Collector,
       StdoutFails
  <2>1. PlacesOK'
    BY <2>0 DEF PlacesOK
  <2>2. FlagsOK'
    BY <2>0 DEF FlagsOK
  <2>3. MarkerInv'
    BY <2>0 DEF MarkerInv, RunInv, BothDirty, Reporting, Collecting, Closing,
       Marking
  <2>4. RunInv'
    BY <2>0 DEF MarkerInv, RunInv, BothDirty, Reporting, Collecting, Closing,
       Marking
  <2>5. CollectorInv'
    BY <2>0 DEF CollectorInv, CollectorLeavesOnlyLate, PlacesOK
  <2> QED
    BY <2>1, <2>2, <2>3, <2>4, <2>5
<1>5. CASE Submit
  <2>1. PlacesOK'
    BY <1>5 DEF PlacesOK, Submit, disk, kernel, thread, signals
  <2>2. FlagsOK'
    BY <1>5 DEF FlagsOK, Submit, disk, kernel, thread, signals
  <2>3. MarkerInv'
    BY <1>5 DEF MarkerInv, RunInv, BothDirty, Reporting, Collecting, Closing,
       Marking, Submit, disk, kernel, thread, signals
  <2>4. RunInv'
    BY <1>5 DEF MarkerInv, RunInv, BothDirty, Reporting, Collecting, Closing,
       Marking, Submit, disk, kernel, thread, signals
  <2>5. CollectorInv'
    BY <1>5 DEF CollectorInv, CollectorLeavesOnlyLate, PlacesOK, Submit, disk,
       kernel, thread, signals
  <2> QED
    BY <2>1, <2>2, <2>3, <2>4, <2>5
<1> QED
  BY <1>1, <1>2, <1>3, <1>4, <1>5 DEF CollectorThread

\* Signals, kills and power losses.
LEMMA WorldPreserves ==
  ASSUME IInv, Signal \/ Kill \/ PowerLoss
  PROVE  IInv'
<1> USE RingAssumption DEF IInv
<1>1. CASE Signal
  <2>1. PlacesOK'
    BY <1>1 DEF PlacesOK, Signal, disk, kernel, thread, signals
  <2>2. FlagsOK'
    BY <1>1 DEF FlagsOK, Signal, disk, kernel, thread, signals
  <2>3. MarkerInv'
    BY <1>1 DEF MarkerInv, RunInv, BothDirty, Reporting, Collecting, Closing,
       Marking, Signal, disk, kernel, thread, signals
  <2>4. RunInv'
    BY <1>1 DEF MarkerInv, RunInv, BothDirty, Reporting, Collecting, Closing,
       Marking, Signal, disk, kernel, thread, signals
  <2>5. CollectorInv'
    BY <1>1 DEF CollectorInv, CollectorLeavesOnlyLate, PlacesOK, Signal, disk,
       kernel, thread, signals
  <2> QED
    BY <2>1, <2>2, <2>3, <2>4, <2>5
<1>2. CASE Kill
  BY <1>2, EndPreserves DEF Kill, PlacesOK, BothDirty, disk
<1>3. CASE PowerLoss
  BY <1>3, EndPreserves DEF PowerLoss, PlacesOK, BothDirty
<1> QED
  BY <1>1, <1>2, <1>3

\* The inductive invariant holds in every reachable state.
THEOREM Invariance == Spec => []IInv
<1>1. IInv /\ [Next]_vars => IInv'
  <2> SUFFICES ASSUME IInv, [Next]_vars PROVE IInv'
    OBVIOUS
  <2>1. CASE UNCHANGED vars
    <3> USE DEF IInv
    <3>1. PlacesOK'
      BY <2>1 DEF PlacesOK, vars, disk, kernel, thread, signals
    <3>2. FlagsOK'
      BY <2>1 DEF FlagsOK, vars, disk, kernel, thread, signals
    <3>3. MarkerInv'
      BY <2>1 DEF MarkerInv, RunInv, BothDirty, Reporting, Collecting, Closing,
         Marking, vars, disk, kernel, thread, signals
    <3>4. RunInv'
      BY <2>1 DEF MarkerInv, RunInv, BothDirty, Reporting, Collecting, Closing,
         Marking, vars, disk, kernel, thread, signals
    <3>5. CollectorInv'
      BY <2>1 DEF CollectorInv, CollectorLeavesOnlyLate, PlacesOK, vars, disk,
         kernel, thread, signals
    <3> QED
      BY <3>1, <3>2, <3>3, <3>4, <3>5
  <2> QED
    BY <2>1, StartupPreserves, RunningPreserves, StoppingPreserves,
       CollectorPreserves, WorldPreserves DEF Next, Main, Advance
<1> QED
  BY <1>1, InitEstablishes, PTL DEF Spec

\* Every variable keeps its type.
THEOREM TypeCorrect == Spec => []TypeOK
<1>1. IInv => TypeOK
  BY DEF IInv, TypeOK
<1> QED
  BY <1>1, Invariance, PTL

\* However often it is started, killed or loses power, the daemon hands no
\* record to the collector before it has reported an unclean run.
THEOREM UncleanReportedFirst == Spec => []ReportedBeforeCollecting
<1>1. IInv => ReportedBeforeCollecting
  BY DEF IInv, RunInv, Collecting, Closing, ReportedBeforeCollecting
<1> QED
  BY <1>1, Invariance, PTL

\* A collector told to stop drains all but what came after its last look.
THEOREM CollectorDrains == Spec => []CollectorLeavesOnlyLate
<1>1. IInv => CollectorLeavesOnlyLate
  BY DEF IInv, CollectorInv
<1> QED
  BY <1>1, Invariance, PTL

\* Exit codes 0 and 8 mean a durable clean marker.
THEOREM OrderlyExit == Spec => []OrderlyExitIsClean
<1>1. IInv => OrderlyExitIsClean
  BY DEF IInv, RunInv, OrderlyExitIsClean
<1> QED
  BY <1>1, Invariance, PTL

-----------------------------------------------------------------------------
(* The refinement.                                                          *)

\* A run that dies leaves Lifecycle a debt, if it was accepting, and the record
\* of a run that was not can only become dirty.
LEMMA EndRefines ==
  ASSUME IInv, NEW c, End(c), UNCHANGED disk \/ ~open,
         BothDirty => BothDirty'
  PROVE  [lifecycle!Next]_lifecycle!vars
<1> USE DEF IInv, lifecycle!Next, lifecycle!vars, BothDirty, disk
<1>1. owed' = (owed \/ open) /\ open' = FALSE
  BY DEF End
<1>2. CASE open
  BY <1>1, <1>2 DEF lifecycle!Die, FlagsOK
<1>3. CASE ~open
  <2>1. owed' = owed /\ open' = open
    BY <1>1, <1>3 DEF FlagsOK
  <2> QED
    BY <2>1, <1>3 DEF lifecycle!MarkDirty
<1> QED
  BY <1>2, <1>3

\* Every other step changes at most the record, or one of the history variables.
LEMMA StepRefines ==
  ASSUME IInv, Next
  PROVE  [lifecycle!Next]_lifecycle!vars
<1> USE DEF IInv, lifecycle!Next, lifecycle!vars
<1>1. CASE UNCHANGED <<disk, open, owed>>
  BY <1>1 DEF disk
<1>2. CASE \E c \in {3, 4, 6, 7, Killed} : End(c) /\ UNCHANGED disk
  BY <1>2, EndRefines DEF BothDirty, disk
<1>3. CASE PowerLoss
  <2>1. End(Killed) /\ (marker = synced => UNCHANGED disk) /\ (BothDirty => BothDirty')
    BY <1>3 DEF PowerLoss, BothDirty, disk
  <2>2. UNCHANGED disk \/ ~open
    BY <2>1 DEF MarkerInv, RunInv, BothDirty
  <2> QED
    BY <2>1, <2>2, EndRefines
<1>4. CASE WriteDirty
  <2>1. /\ ~open /\ (marker' # marker => marker' = "dirty")
        /\ BothDirty => BothDirty'
    BY <1>4 DEF WriteDirty, WriteMarker, RunInv, Reporting, Collecting, BothDirty,
       disk
  <2>2. CASE End(4)
    BY <2>1, <2>2, EndRefines
  <2>3. CASE UNCHANGED <<open, owed>>
    BY <2>1, <2>3 DEF lifecycle!MarkDirty, BothDirty
  <2> QED
    BY <1>4, <2>2, <2>3 DEF WriteDirty, WriteMarker, Goto
<1>5. CASE WriteClean
  <2>1. ~open /\ ~owed
    BY <1>5 DEF WriteClean, WriteMarker, RunInv, Reporting, Collecting, Closing
  <2>2. UNCHANGED <<open, owed>>
    BY <1>5, <2>1 DEF WriteClean, WriteMarker, Goto, End, FlagsOK
  <2>3. marker' = "dirty" /\ synced' = "dirty" => marker = "dirty"
    BY <1>5 DEF WriteClean, WriteMarker, disk, MarkerInv
  <2> QED
    BY <2>1, <2>2, <2>3 DEF lifecycle!MarkDirty, lifecycle!MarkOther
<1>6. CASE Attach
  BY <1>6 DEF Attach, disk, lifecycle!Accept, MarkerInv, BothDirty, Reporting
<1>7. CASE Drain
  BY <1>7 DEF Drain, disk, lifecycle!Account
<1>8. CASE ReportUnclean
  BY <1>8, <1>1, <1>2 DEF ReportUnclean, Goto, disk, lifecycle!Report
<1> QED
  BY <1>1, <1>2, <1>3, <1>4, <1>5, <1>6, <1>7, <1>8 DEF Next, Main, Advance,
     CollectorThread, Start, Load, ReadMarker, Prepare, StartCollector,
     InitialStatus, StatusFails, TakeReload, FinishReload, TakeStop, Detach,
     RaiseStop, FinalStatus, Consume, PollEmpty, Expire, CheckStop, Submit,
     Signal, Kill, Goto, Collector, StdoutFails

\* The daemon keeps the promise of the lifecycle marker: unaccounted events are
\* never hidden behind a record that is not durably dirty.
THEOREM Refinement == Spec => ImplementsLifecycle
<1>1. Init => lifecycle!Init
  BY DEF Init, lifecycle!Init
<1>2. IInv /\ [Next]_vars => [lifecycle!Next]_lifecycle!vars
  <2> SUFFICES ASSUME IInv, [Next]_vars PROVE [lifecycle!Next]_lifecycle!vars
    OBVIOUS
  <2>1. CASE UNCHANGED vars
    BY <2>1 DEF vars, disk, lifecycle!vars
  <2> QED
    BY <2>1, StepRefines
<1> QED
  BY <1>1, <1>2, Invariance, PTL DEF Spec, ImplementsLifecycle, lifecycle!Spec

\* So it inherits the invariant of Lifecycle: while a run has unaccounted events,
\* and until a gap has told of them, reader and power loss find the marker dirty.
THEOREM DirtyUntilAccounted == Spec => []lifecycle!DirtyWhileUnaccounted
<1>1. IInv => lifecycle!DirtyWhileUnaccounted
  BY DEF IInv, MarkerInv, RunInv, BothDirty, lifecycle!DirtyWhileUnaccounted
<1> QED
  BY <1>1, Invariance, PTL

-----------------------------------------------------------------------------
(* How far a run is from its end.                                           *)

\* The statements of run_async that the main thread has before it at most. The loop and the
\* reload in it take turns, and "attach" is two statements.
Ahead ==
  [down |-> 0, clean_sync |-> 1, clean_rename |-> 2, clean_temp |-> 3, final |-> 4,
   drain |-> 5, stop |-> 6, detach |-> 7, loop |-> 8, reload |-> 8, status |-> 9,
   start |-> 10, gap |-> 11, attach |-> 12, dirty_sync |-> 14, dirty_rename |-> 15,
   dirty_temp |-> 16, read |-> 17, load |-> 18]

Distance == IF main = "attach" /\ ~attached THEN 13 ELSE Ahead[main]

\* A run goes on to its end, or waits, or turns in the loop.
RunAdvances ==
  [][main # "down" => \/ Distance' < Distance
                      \/ main' = main /\ attached' = attached
                      \/ {main, main'} = {"loop", "reload"}]_vars

\* A stop signal waits until it is received.
StopIsKept == [][term /\ main # "down" => term' \/ main' \in {"detach", "down"}]_vars

LEMMA EndAdvances ==
  ASSUME PlacesOK, main # "down", main' = "down"
  PROVE  Distance' < Distance
  BY DEF PlacesOK, Distance, Ahead

LEMMA StartupAdvances ==
  ASSUME PlacesOK,
         Load \/ ReadMarker \/ WriteDirty \/ Attach \/ Prepare \/ ReportUnclean
         \/ StartCollector \/ InitialStatus
  PROVE  Distance' < Distance
  <1>1. CASE main # "down" /\ main' = "down"
    BY <1>1, EndAdvances
  <1>2. CASE main' # "down"
    <2>1. CASE Load
      BY <1>2, <2>1 DEF Load, Goto, End, Distance, Ahead
    <2>2. CASE ReadMarker
      BY <1>2, <2>2 DEF ReadMarker, Goto, End, Distance, Ahead
    <2>3. CASE WriteDirty
      BY <1>2, <2>3 DEF WriteDirty, WriteMarker, Goto, End, Distance, Ahead, kernel
    <2>4. CASE Attach
      BY <1>2, <2>4 DEF Attach, Distance, Ahead
    <2>5. CASE Prepare
      BY <1>2, <2>5 DEF Prepare, Goto, End, Distance, Ahead
    <2>6. CASE ReportUnclean
      BY <1>2, <2>6 DEF ReportUnclean, Goto, End, Distance, Ahead
    <2>7. CASE StartCollector
      BY <1>2, <2>7 DEF StartCollector, Distance, Ahead
    <2>8. CASE InitialStatus
      BY <1>2, <2>8 DEF InitialStatus, Goto, End, Distance, Ahead
    <2> QED
      BY <2>1, <2>2, <2>3, <2>4, <2>5, <2>6, <2>7, <2>8
  <1>3. main # "down"
    BY DEF Load, ReadMarker, WriteDirty, WriteMarker, Attach, Prepare, ReportUnclean,
           StartCollector, InitialStatus
  <1> QED
    BY <1>1, <1>2, <1>3

LEMMA StoppingAdvances ==
  ASSUME PlacesOK,
         StatusFails \/ TakeStop \/ Detach \/ RaiseStop \/ Drain \/ FinalStatus \/ WriteClean
  PROVE  Distance' < Distance
  <1>1. CASE main # "down" /\ main' = "down"
    BY <1>1, EndAdvances
  <1>2. CASE main' # "down"
    <2>1. CASE StatusFails
      BY <1>2, <2>1 DEF StatusFails, Goto, Distance, Ahead
    <2>2. CASE TakeStop
      BY <1>2, <2>2 DEF TakeStop, Distance, Ahead
    <2>3. CASE Detach
      BY <1>2, <2>3 DEF Detach, End, Distance, Ahead
    <2>4. CASE RaiseStop
      BY <1>2, <2>4 DEF RaiseStop, Distance, Ahead
    <2>5. CASE Drain
      BY <1>2, <2>5 DEF Drain, Distance, Ahead
    <2>6. CASE FinalStatus
      BY <1>2, <2>6 DEF FinalStatus, Goto, End, Distance, Ahead
    <2>7. CASE WriteClean
      BY <1>2, <2>7 DEF WriteClean, WriteMarker, Goto, End, Distance, Ahead
    <2> QED
      BY <2>1, <2>2, <2>3, <2>4, <2>5, <2>6, <2>7
  <1>3. main # "down"
    BY DEF StatusFails, TakeStop, Detach, RaiseStop, Drain, FinalStatus, WriteClean,
           WriteMarker
  <1> QED
    BY <1>1, <1>2, <1>3

LEMMA OthersWait ==
  ASSUME PlacesOK, main # "down",
         CollectorThread \/ Submit \/ Signal \/ UNCHANGED vars
  PROVE  main' = main /\ attached' = attached
  BY DEF CollectorThread, Consume, PollEmpty, Expire, CheckStop, StdoutFails, Collector,
         Submit, Signal, vars, kernel

LEMMA StopWaits ==
  ASSUME [Next]_vars, term, main # "down"
  PROVE  term' \/ main' \in {"detach", "down"}
  <1>1. CASE main' = "down"
    BY <1>1
  <1>2. CASE main' # "down"
    <2>1. CASE Start \/ Kill \/ PowerLoss
      BY <1>2, <2>1 DEF Start, Kill, PowerLoss, End
    <2>2. CASE Load \/ ReadMarker \/ WriteDirty \/ Attach \/ Prepare \/ ReportUnclean
      BY <1>2, <2>2 DEF Load, ReadMarker, WriteDirty, WriteMarker, Attach, Prepare,
                        ReportUnclean, Goto, End, signals
    <2>3. CASE StartCollector \/ InitialStatus \/ TakeReload \/ FinishReload \/ StatusFails
      BY <1>2, <2>3 DEF StartCollector, InitialStatus, TakeReload, FinishReload,
                        StatusFails, Goto, End, signals
    <2>4. CASE TakeStop
      BY <2>4 DEF TakeStop
    <2>5. CASE Detach \/ RaiseStop \/ Drain \/ FinalStatus \/ WriteClean
      BY <1>2, <2>5 DEF Detach, RaiseStop, Drain, FinalStatus, WriteClean, WriteMarker,
                        Goto, End, signals
    <2>6. CASE CollectorThread \/ Submit \/ UNCHANGED vars
      BY <2>6 DEF CollectorThread, Consume, PollEmpty, Expire, CheckStop, StdoutFails,
                  Collector, Submit, vars, signals
    <2>7. CASE Signal
      BY <2>7 DEF Signal
    <2> QED
      BY <2>1, <2>2, <2>3, <2>4, <2>5, <2>6, <2>7 DEF Next, Main, Advance
  <1> QED
    BY <1>1, <1>2

\* runtime.rs, run_async: a stop signal is not lost, and no step of any thread, of the kernel
\* or of the outside world takes a run back: the main thread gets closer to its end with every
\* statement except the turns of the select loop. With the scheduling of the main thread
\* this is why StopEndsTheRun: the drain waits for no one, and past the loop at most seven
\* statements are left.
THEOREM StopIsReached == Spec => RunAdvances /\ StopIsKept
  <1>1. PlacesOK /\ [Next]_vars =>
          [main # "down" => \/ Distance' < Distance
                            \/ main' = main /\ attached' = attached
                            \/ {main, main'} = {"loop", "reload"}]_vars
    <2> SUFFICES ASSUME PlacesOK, [Next]_vars, main # "down"
                 PROVE  \/ Distance' < Distance
                        \/ main' = main /\ attached' = attached
                        \/ {main, main'} = {"loop", "reload"}
      OBVIOUS
    <2>1. CASE Kill \/ PowerLoss
      BY <2>1, EndAdvances DEF Kill, PowerLoss, End
    <2>2. CASE TakeReload \/ FinishReload
      BY <2>2 DEF TakeReload, FinishReload, Goto
    <2>3. ~Start
      BY DEF Start
    <2> QED
      BY <2>1, <2>2, <2>3, StartupAdvances, StoppingAdvances, OthersWait
      DEF Next, Main, Advance
  <1>2. [Next]_vars => [term /\ main # "down" => term' \/ main' \in {"detach", "down"}]_vars
    BY StopWaits
  <1>3. IInv => PlacesOK
    BY DEF IInv
  <1> QED
    BY <1>1, <1>2, <1>3, Invariance, PTL DEF Spec, RunAdvances, StopIsKept
=============================================================================
