------------------------------- MODULE Daemon -------------------------------
(***************************************************************************)
(* One run of the daemon after another: the main thread (run_async), the   *)
(* collector thread, the kernel programs that fill the ring, the lifecycle *)
(* marker on disk, signals, kills and power losses.                        *)
(*                                                                         *)
(* The marker is two values, what a reader finds and what a power loss     *)
(* leaves: a rename shows at once and is durable only after the directory  *)
(* is synced.  The content of a record is immaterial here; the ring is the *)
(* number of records waiting in it.                                        *)
(***************************************************************************)
EXTENDS Naturals

CONSTANT RingSlots (* bound: records the ring buffer holds *)

ASSUME RingAssumption == RingSlots \in Nat \ {0}

VARIABLES
  main,          (* what the main thread does next                          *)
  marker,        (* the lifecycle file as a reader finds it                 *)
  synced,        (* the lifecycle file as a power loss leaves it            *)
  previousDirty, (* previous_dirty: the marker this run found was dirty     *)
  attached,      (* the kernel programs are attached                        *)
  ring,          (* records waiting in EVENTS                               *)
  collector,     (* what the collector thread does next                     *)
  drained,       (* its current pass over the ring found a record           *)
  stdoutFailed,  (* stdout_write_failed_total # 0                           *)
  stop,          (* the collector's stop flag                               *)
  hup, term,     (* a SIGHUP, a SIGTERM or SIGINT waits to be received      *)
  outcome,       (* DrainOutcome                                            *)
  code,          (* exit code of the last run, Killed after a crash         *)
  late,          (* history: records that came after the last poll          *)
  open,          (* history: this run accepted events and has not drained   *)
  owed           (* history: a run ended open and no gap has reported it    *)

disk == <<marker, synced>>
signals == <<hup, term>>
kernel == <<attached, ring, late>>
thread == <<collector, drained, stdoutFailed>>
vars == <<main, disk, previousDirty, kernel, thread, stop, signals, outcome,
          code, open, owed>>

NoCode == 256
Killed == 137

\* The process is gone: links, maps, threads and pending signals with it.
End(c) ==
  /\ main' = "down"
  /\ code' = c
  /\ attached' = FALSE /\ ring' = 0 /\ late' = 0
  /\ collector' = "none" /\ drained' = FALSE
  /\ hup' = FALSE /\ term' = FALSE
  /\ owed' = (owed \/ open)
  /\ open' = FALSE
  /\ UNCHANGED <<previousDirty, stdoutFailed, stop, outcome>>

\* The main thread goes on to its next statement and does nothing else.
Goto(next) ==
  /\ main' = next
  /\ UNCHANGED <<previousDirty, kernel, thread, stop, signals, outcome, code,
                 open, owed>>

-----------------------------------------------------------------------------
(* Startup.                                                                 *)

\* Signal streams, the eBPF object, the rules compiled and staged.
Start ==
  /\ main = "down"
  /\ main' = "load"
  /\ outcome' = "none" /\ stop' = FALSE /\ stdoutFailed' = FALSE
  /\ previousDirty' = FALSE
  /\ UNCHANGED <<disk, kernel, collector, drained, signals, code, open, owed>>

Load ==
  /\ main = "load"
  /\ Goto("read") \/ \E c \in {3, 6} : End(c)
  /\ UNCHANGED disk

ReadMarker ==
  /\ main = "read"
  /\ \/ /\ main' = "dirty_temp"
        /\ previousDirty' = (marker = "dirty")
        /\ UNCHANGED <<kernel, thread, stop, signals, outcome, code, open, owed>>
     \/ End(4)
  /\ UNCHANGED disk

\* write_replace: temporary file, rename, directory sync, and then Done. The
\* checks after the rename can fail as well: the file is then replaced although
\* write() returns an error.
WriteMarker(at, state, c, Done) ==
  \/ /\ main = at.temp
     /\ Goto(at.rename) \/ End(c)
     /\ UNCHANGED disk
  \/ /\ main = at.rename
     /\ \/ Goto(at.sync) /\ marker' = state
        \/ End(c) /\ marker' \in {marker, state}
     /\ UNCHANGED synced
  \/ /\ main = at.sync
     /\ \/ Done /\ synced' = marker
        \/ End(c) /\ synced' \in {synced, marker}
     /\ UNCHANGED marker

\* Mutant: the directory is not synced before the programs are attached.
WriteDirtyUnsynced ==
  \/ /\ main = "dirty_temp" /\ Goto("dirty_rename")
     /\ UNCHANGED disk
  \/ /\ main = "dirty_rename" /\ Goto("attach")
     /\ marker' = "dirty" /\ UNCHANGED synced

WriteDirty ==
  WriteMarker([temp |-> "dirty_temp", rename |-> "dirty_rename",
               sync |-> "dirty_sync"], "dirty", 4, Goto("attach"))

\* The programs are attached one after the other, so events are accepted
\* before the last one is attached, or fails to.
Attach ==
  /\ main = "attach"
  /\ ~attached
  /\ attached' = TRUE /\ open' = TRUE
  /\ UNCHANGED <<main, ring, late, disk, previousDirty, thread, stop, signals,
                 outcome, code, owed>>

\* The remaining programs, take_ring, scan_proc, drop_runtime_capabilities.
Prepare ==
  /\ main = "attach"
  /\ attached
  /\ Goto("gap") \/ End(6)
  /\ UNCHANGED disk

\* Mutant: the failure to write the gap is ignored.
ReportUncleanOrNot ==
  /\ main = "gap"
  /\ main' = "start"
  /\ \E written \in BOOLEAN : owed' = (owed /\ ~(previousDirty /\ written))
  /\ UNCHANGED <<disk, previousDirty, kernel, thread, stop, signals, outcome,
                 code, open>>

\* The gap goes out before the collector takes the stdout lock for good.
ReportUnclean ==
  /\ main = "gap"
  /\ \/ /\ previousDirty
        /\ main' = "start"
        /\ owed' = FALSE
        /\ UNCHANGED <<previousDirty, kernel, thread, stop, signals, outcome,
                       code, open>>
     \/ previousDirty /\ End(7)
     \/ ~previousDirty /\ Goto("start")
  /\ UNCHANGED disk

StartCollector ==
  /\ main = "start"
  /\ main' = "status"
  /\ collector' = "poll"
  /\ UNCHANGED <<disk, previousDirty, kernel, drained, stdoutFailed, stop,
                 signals, outcome, code, open, owed>>

InitialStatus ==
  /\ main = "status"
  /\ Goto("loop") \/ End(7)
  /\ UNCHANGED disk

-----------------------------------------------------------------------------
(* The select loop and the way out.                                         *)

\* A due status record whose counters fail their check ends the loop; one that
\* passes changes nothing here.
StatusFails ==
  /\ main = "loop"
  /\ Goto("detach")
  /\ UNCHANGED disk

TakeReload ==
  /\ main = "loop" /\ hup
  /\ main' = "reload"
  /\ hup' = FALSE
  /\ UNCHANGED <<disk, previousDirty, kernel, thread, stop, term, outcome, code,
                 open, owed>>

FinishReload ==
  /\ main = "reload"
  /\ Goto("loop")
  /\ UNCHANGED disk

TakeStop ==
  /\ main = "loop" /\ term
  /\ main' = "detach"
  /\ term' = FALSE
  /\ UNCHANGED <<disk, previousDirty, kernel, thread, stop, hup, outcome, code,
                 open, owed>>

Detach ==
  /\ main = "detach"
  /\ \/ /\ main' = "stop"
        /\ attached' = FALSE
        /\ UNCHANGED <<previousDirty, ring, late, thread, stop, signals, outcome,
                       code, open, owed>>
     \/ End(7)
  /\ UNCHANGED disk

RaiseStop ==
  /\ main = "stop"
  /\ main' = "drain"
  /\ stop' = TRUE
  /\ UNCHANGED <<disk, previousDirty, kernel, thread, signals, outcome, code,
                 open, owed>>

\* Mutant: the main thread joins the collector without a deadline.
DrainForever ==
  /\ main = "drain" /\ collector = "finished"
  /\ outcome' = "drained"
  /\ main' = "final"
  /\ open' = FALSE
  /\ UNCHANGED <<disk, previousDirty, kernel, thread, stop, signals, code, owed>>

\* The thread has finished, for whatever reason, or 30 s have passed.
Drain ==
  /\ main = "drain"
  /\ outcome' = IF collector = "finished" THEN "drained" ELSE "timed_out"
  /\ main' = "final"
  /\ open' = FALSE
  /\ UNCHANGED <<disk, previousDirty, kernel, thread, stop, signals, code, owed>>

\* The final counters fail their check, or stderr cannot be flushed.
FinalStatus ==
  /\ main = "final"
  /\ Goto("clean_temp") \/ End(7)
  /\ UNCHANGED disk

\* Mutant: the process exits without syncing the directory.
WriteCleanUnsynced ==
  \/ /\ main \in {"clean_temp", "clean_sync"}
     /\ \/ main = "clean_temp" /\ Goto("clean_rename")
        \/ main = "clean_sync" /\ End(IF outcome = "drained" THEN 0 ELSE 8)
     /\ UNCHANGED disk
  \/ /\ main = "clean_rename" /\ Goto("clean_sync")
     /\ marker' = "clean" /\ UNCHANGED synced

WriteClean ==
  WriteMarker([temp |-> "clean_temp", rename |-> "clean_rename",
               sync |-> "clean_sync"], "clean", 7,
              End(IF outcome = "drained" THEN 0 ELSE 8))

-----------------------------------------------------------------------------
(* The collector thread.                                                    *)

Collector(next) ==
  /\ collector' = next
  /\ UNCHANGED <<main, disk, previousDirty, attached, stop, signals, outcome,
                 code, open, owed>>

\* A stdout failure ends the thread; the main thread is not told.
StdoutFails ==
  /\ Collector("finished")
  /\ stdoutFailed' = TRUE

\* Mutant: the pass ends after one record.
ConsumeOne ==
  /\ collector = "poll" /\ ring > 0
  /\ ring' = ring - 1 /\ late' = 0
  /\ Collector("expire")
  /\ UNCHANGED <<drained, stdoutFailed>>

\* ring.next() yields a record; what it turns into is written to stdout.
Consume ==
  /\ collector = "poll" /\ ring > 0
  /\ ring' = ring - 1 /\ late' = 0
  /\ drained' = TRUE
  /\ \/ Collector("poll") /\ UNCHANGED stdoutFailed
     \/ StdoutFails

PollEmpty ==
  /\ collector = "poll" /\ ring = 0
  /\ Collector("expire")
  /\ late' = 0
  /\ UNCHANGED <<ring, drained, stdoutFailed>>

\* Timed out execs become gaps, and those may find stdout broken as well.
Expire ==
  /\ collector = "expire"
  /\ \/ Collector("check") /\ UNCHANGED stdoutFailed
     \/ StdoutFails
  /\ UNCHANGED <<ring, late, drained>>

\* The stop flag counts only after a pass that found nothing; the thread then
\* flushes stdout and ends.
CheckStop ==
  /\ collector = "check"
  /\ \/ /\ stop /\ ~drained
        /\ Collector("finished")
        /\ stdoutFailed' \in {stdoutFailed, TRUE}
        /\ UNCHANGED drained
     \/ /\ ~stop \/ drained
        /\ Collector("poll")
        /\ drained' = FALSE
        /\ UNCHANGED stdoutFailed
  /\ UNCHANGED <<ring, late>>

-----------------------------------------------------------------------------
(* The outside world.                                                       *)

\* Mutant: a record is submitted to a ring that has no space left.
SubmitAnyway ==
  /\ attached /\ ring <= RingSlots
  /\ ring' = ring + 1
  /\ late' = late + 1
  /\ UNCHANGED <<main, disk, previousDirty, attached, thread, stop, signals,
                 outcome, code, open, owed>>

Submit ==
  /\ attached /\ ring < RingSlots
  /\ ring' = ring + 1
  /\ late' = late + 1
  /\ UNCHANGED <<main, disk, previousDirty, attached, thread, stop, signals,
                 outcome, code, open, owed>>

Signal ==
  /\ main # "down"
  /\ \/ hup' = TRUE /\ UNCHANGED term
     \/ term' = TRUE /\ UNCHANGED hup
  /\ UNCHANGED <<main, disk, previousDirty, kernel, thread, stop, outcome, code,
                 open, owed>>

\* SIGKILL, the OOM killer, a panic of the main thread.
Kill ==
  /\ main # "down"
  /\ End(Killed)
  /\ UNCHANGED disk

PowerLoss ==
  /\ End(Killed)
  /\ \E m \in {marker, synced} : marker' = m /\ synced' = m

-----------------------------------------------------------------------------
Init ==
  /\ main = "down"
  /\ marker = "missing" /\ synced = "missing"
  /\ previousDirty = FALSE
  /\ attached = FALSE /\ ring = 0 /\ late = 0
  /\ collector = "none" /\ drained = FALSE /\ stdoutFailed = FALSE
  /\ stop = FALSE /\ hup = FALSE /\ term = FALSE
  /\ outcome = "none" /\ code = NoCode
  /\ open = FALSE /\ owed = FALSE

Advance ==
  \/ Load \/ ReadMarker \/ WriteDirty \/ Attach \/ Prepare \/ ReportUnclean
  \/ StartCollector \/ InitialStatus \/ TakeReload
  \/ FinishReload \/ TakeStop \/ Detach \/ RaiseStop \/ Drain \/ FinalStatus
  \/ WriteClean

Main == Advance \/ StatusFails

CollectorThread == Consume \/ PollEmpty \/ Expire \/ CheckStop

Next == Start \/ Main \/ CollectorThread \/ Submit \/ Signal \/ Kill \/ PowerLoss

Spec == Init /\ [][Next]_vars

\* The runtime is single threaded and runs whenever a branch is ready; select!
\* picks among ready branches at random, so a stop signal that is ready again
\* and again is received. No status has to fail, and nothing is assumed of the
\* collector, the kernel or the outside world.
Fairness == WF_vars(Advance) /\ SF_vars(TakeStop)

FairSpec == Spec /\ Fairness

-----------------------------------------------------------------------------
(* Properties.                                                              *)

PlacesOK ==
  /\ main \in {"down", "load", "read", "dirty_temp", "dirty_rename",
               "dirty_sync", "attach", "gap", "start", "status", "loop",
               "reload", "detach", "stop", "drain", "final", "clean_temp",
               "clean_rename", "clean_sync"}
  /\ marker \in {"missing", "dirty", "clean"}
  /\ synced \in {"missing", "dirty", "clean"}
  /\ ring \in 0 .. RingSlots /\ late \in 0 .. ring
  /\ collector \in {"none", "poll", "expire", "check", "finished"}
  /\ outcome \in {"none", "drained", "timed_out"}
  /\ code \in {0, 3, 4, 6, 7, 8, Killed, NoCode}

FlagsOK ==
  /\ previousDirty \in BOOLEAN /\ attached \in BOOLEAN
  /\ drained \in BOOLEAN /\ stdoutFailed \in BOOLEAN /\ stop \in BOOLEAN
  /\ hup \in BOOLEAN /\ term \in BOOLEAN
  /\ open \in BOOLEAN /\ owed \in BOOLEAN

TypeOK == PlacesOK /\ FlagsOK

\* A run that died accepting events is reported as an unclean shutdown before a
\* later run hands a record to the collector, however many starts fail, are
\* killed or lose power in between.
ReportedBeforeCollecting ==
  main \in {"start", "status", "loop", "reload", "detach", "stop", "drain",
            "final", "clean_temp", "clean_rename", "clean_sync"} => ~owed

\* A collector that ends because it was told to leaves behind only records
\* submitted after its last look at the ring.
CollectorLeavesOnlyLate ==
  collector = "finished" /\ ~stdoutFailed => ring <= late

\* No exit code of an orderly stop without the marker saying clean, safe from a
\* power loss, and none that leaves an unclean run unreported.
OrderlyExitIsClean ==
  main = "down" /\ code \in {0, 8} =>
    marker = "clean" /\ synced = "clean" /\ ~owed

\* The marker keeps the promise of Lifecycle: the record counts as dirty when
\* both a reader and a power loss find it dirty.
lifecycle == INSTANCE Lifecycle WITH
  record <- IF marker = "dirty" /\ synced = "dirty" THEN "dirty" ELSE "other",
  accepting <- open, debt <- owed

ImplementsLifecycle == lifecycle!Spec

\* A stop signal ends the run, whatever reloads are asked for meanwhile.
StopEndsTheRun == term ~> main = "down"
=============================================================================
