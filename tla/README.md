# A verification project for auditd-ebpf

auditd-ebpf replaces the Linux audit daemon: eBPF programs attached to raw
tracepoints filter system calls against audit rules in the kernel, a collector
thread turns the records into audit lines, and a main thread starts, reloads,
reports on and stops the whole. This directory holds TLA+ models of it, TLC
configurations that check them on small instances, and TLAPS proofs for every
instance. Paths below are relative to `src/`; `runtime.rs` is
`crates/auditd-ebpf/src/runtime.rs`, `ebpf/` is `crates/auditd-ebpf-ebpf/src/`.

    tlc -workers 2 -config RuleReload.cfg MCRuleReload     # a run
    tlapm RuleReloadProofs.tla                             # a module of proofs

## 1. The system

Three kinds of processes share state:

- **kernel programs** (`ebpf/programs/`): `sys_enter`, `sys_exit`, and
  fork/exec/exit tracepoints, on every CPU at once. They share BPF maps with each
  other and with user space, and submit records to one ring buffer, `EVENTS`.
- **the collector thread** (`runtime.rs:814-900`): polls the ring, correlates,
  evaluates rules, writes audit lines to stdout, which it keeps locked.
- **the main thread** (`run_async`, `runtime.rs:155-459`): a single-threaded tokio
  `select!` over a status timer, SIGUSR1, SIGHUP, SIGTERM and SIGINT.

What crosses between them: records through `EVENTS`; rules through the
generation maps; engines through `RuleEngineRegistry` (a lock); the stop flag and
the collector's counters (atomics); per-CPU kernel counters; the lifecycle file,
which is all that survives from one run to the next.

| Component | State | Operations | What is hard | What makes it correct | Module |
|---|---|---|---|---|---|
| Rule reload (`loader.rs`, `runtime.rs:340-384, 656-697`) | `ACTIVE_GENERATION`, two generations of maps, `RULE_VERSIONS`, two engines | compile, stage map by map, install, activate, restore | handlers read map by map meanwhile; each update may fail; calls block across reloads | the active generation is one complete rule set with an engine; old records find their engine | RuleReload |
| Daemon control (`runtime.rs`) | place in `run_async`, stop flag, exit code, pending signals | start, status, reload, drain, exit | failure or kill at every step, races with the collector | a stop ends the run, a drained ring holds only late records, the exit code tells the truth | Daemon |
| Lifecycle marker (`lifecycle/state_file.rs`) | one file: a page cache and a disk value | read, durable replace | power loss between rename and sync | an unclean run is always found and reported | Daemon, Lifecycle |
| Exec capture and correlation (`ebpf/programs/exec.rs`, `syscall.rs`, `collector/`) | `INFLIGHT_SYSCALLS`, `EXEC_ATTEMPTS`, `ExecPending`, `completed_execs` | capture, result, pair, expire, attach | losses at every map, thread id changes and reuse, timeouts | every argv is output, or its loss is visible; it goes to its own call | ExecCorrelation |
| Counters and status (`ebpf/maps.rs`, `health/counters.rs`, `runtime.rs:496-570`) | per-CPU counters, collector atomics, the sample | count, sample, check | read one by one while they move | a status is refused only for a reason | StatusCounters |
| Watched descriptors (`ebpf/programs/syscall.rs`, `process_cache/`, `runtime.rs:1341-1574`) | `WATCH_FDS`, FD tables of the cache | filter, follow; open, close, dup, fork, /proc snapshot, resolve | two tables follow a third from different records, in an order that is not the order of the calls | a line names the file the call went to; no call on a watched file is silently dropped | FdTracking |
| Rule parser and compiler (`crates/auditd-ebpf-rules/`) | none: functions of the rules | parse a line, select by ABI and permission, bitmaps and masks | two numberings, classes of calls, refusals | a file means the same to the kernel and to the engine | Rules |
| Rule engine (`rules/engine.rs`) | none | match, first match, what a rule asks for | two paths, permissions that may be unknown | the first rule of the file that covers a call | Rules |
| Kernel watch filter (`ebpf/programs/syscall.rs`, `loader.rs`) | bitmaps, masks, path digests, `PROCESS_ABI` | choose the ABI, capture names, filter by name and permission | a filter that drops what a rule names loses events silently | whatever a rule covers passes, and something is heard of it | KernelFilter |
| Working directories (`process_cache/`) | per thread: cwd, root, mount epoch; per process: the epoch | chdir, fchdir, chroot, fork, exec, exit, snapshot | records told after the fact, a snapshot ahead of them, ids used again | a relative path resolves to the file the call used, or to a gap | Cwd |
| Output queue (`output/`) | used and limit bytes, records, watermarks | enqueue, drain, grow, shrink | doubling, halving, limits, a failed write | a FIFO that refuses at the hard maximum only | OutputQueue, BoundedFifo |
| Health state machine and reporter (`health/`) | state, first and last gap, last report | gap, failure, ready, poll | series of gaps, quiet times | healthy is told only after a quiet time | HealthReporter |

The remaining parts (record formatting, command line and configuration,
production policy, signal coordinator, event layout, capabilities, benchmarks, xtask, packaging) are
sequential, without state that outlives a call, or not part of the daemon.
`PROJECT.json` lists every component with its status, and under "hazards" what in
this code is hard to test, with the line where it bites.

## 2. Modules

**RuleReload** - SIGHUP over the two generations. `tables`, `paths` and
`ruleVersions` are the generation-indexed maps, `registry` the engines, `reload`
the place in the SIGHUP branch, `call[t]` a thread's handler and then its
`INFLIGHT_SYSCALLS` entry. Each map lookup of `sys_enter` is an action, each group of
map updates of `stage_program` is an action, and each can fail. A rule set stands for
its content, and `rule_version` for the rule set, of which it is a digest.
`Covers`, `Candidates` and `Selects` say what the bitmaps, the path filter and
the engine let through. `RulesAssumption` demands that they are nested and that
distinct versions are distinct rule sets. KernelFilter is where compiler and engine
really are compared: `SavedIfCovered` and its exceptions say how far they are nested.

**Daemon** - run after run of `run_async`, in the order of its statements: start, load, read
marker, write dirty, attach, report the unclean run, start the collector, select
loop, detach, raise stop, drain, final status, write clean. Every statement that
can fail has a way out with the exit code it has in the code. `marker` and `synced` are the
lifecycle file as read and as found after a power loss. `Kill` and `PowerLoss`
happen at any moment. The collector's loop is four actions, since what it reads
and when decides whether the ring is empty.
A status refused in the select loop, asked for by the timer or by SIGUSR1, leaves it
(`StatusFails`) and goes on to the orderly stop, exit code included (`runtime.rs:335-339,
385-389`); the first and the final status
end the run with 7.

**Lifecycle** - the abstract promise of the marker: the record is dirty while a
run accepts events and until somebody has reported a run that died. `Daemon`
implements it with `record` = "dirty" iff reader and power loss both find dirty.

**ExecCorrelation** - one process with its threads, the two kernel maps, the ring,
`ExecPending` and `completed_execs`. Each handler is one action except
`sys_exit`, which submits twice. `Execve` moves the calling thread to the leader's id, as the kernel does;
`Exit` leaves an entry behind; `Spawn` reuses an id.
A map insertion fails only for a new key. Counters are sets of calls: what was
counted, and for which call.

**StatusCounters** - every increment of a counter is a step, in the order of the
code (`program[cpu]` and `todo` hold the increments still to be made), and so is
every read of the main thread. Simplifications: kernel counters are summed over
the CPUs, and one slot is read for all CPUs at once (the code reads all slots
of all CPUs in the same order); `events_output_total` and
`queue_dropped_total`, which the invariants only use as a sum, are one counter
`done`; counters that no invariant mentions, and the counts per permission, which
move with the watch matches, are left out.

**FdTracking** - what stands for the descriptors of a process: `files` is the
truth, `followed` is `WATCH_FDS`, and `known`, `owner` and `cached` are the
`ProcessCache` (contexts, the process each is filed under, FD tables). A call is
filtered (`Enter`), takes place (`Effect`), is submitted (`Submit`) and only then
updates `WATCH_FDS` (`Follow`); the collector takes one record to its end. The
rules are exact watches for all permissions, so that the path filter is on and no
permission is refused. `readable` says whether the service may still read
`/proc`; a read of it happens at one moment. `verdict` and `shown` remember
what was made of a call by descriptor and which descriptors the filter saw appear,
and `causes` what has happened that can mislead the tables:

- `reuse`: a number was given out again before its close had returned;
- `dup2`: a file was replaced by dup2 or dup3, which update neither `WATCH_FDS`
  nor, where the source is not cached, the cache;
- `split`: a thread was given a table of its own;
- `behind`: `/proc` was read when it already showed later calls;
- `lost`: the ring was full;
- `full`: `WATCH_FDS` was full.

Each property names the causes it needs to exclude. They are what the
two tables cannot survive, so the list is a result of the model as much as an
assumption. Failing fcntl commands, exec, exit, mounts and working directories
are left out.

**Rules** - `parse_rules`, `RuleCompiler::compile` and `RuleEngine` as functions. A call stands
for its class in the coverage contract, with its real number in both tables, so
that numbers that mean another call in the other ABI are among them. An optional
field is a set of at most one value, a bitmap a set of pairs. A path is the sequence of its
components; the spelling is kept beside it where the code looks at bytes. Lexing,
diagnostics, argv overrides, gid and the version digest are left out.

**KernelFilter** - one call under one rule file: `Load` (parse, compile, stage), `Enter` (all
of `try_sys_enter`, in its order) and `Judge` (resolution, permissions, engine).
The 160-byte buffer, the 8-byte signatures and the hashes are in the `form` of a name:
what the filter sees of it, next to the place it leads to. The properties compare
the outcome with `Covers`, which reads a rule without the tables. Hashes are taken to be
free of collisions, except that signatures of paths with the same end agree.
What the cache knows of descriptors and contexts is an input.

**Cwd** - directories are the levels of one path, so that "one level down" applied twice shows.
`cwd`, `root` and `thread` are the kernel's truth, `cache` is the `ProcessCache`
(contexts and `process_mount_epochs`), and the operators of the cache are those of `mod.rs`,
one each. Every call leaves a record here, with or without the name in it (`Captured`); a
descriptor's path is known or not. `misled` remembers, per thread id, what has happened
that the cache cannot survive:

- `lost`: a record about the thread did not fit in the ring;
- `sibling`: another thread of the process changed directory or root;
- `unread`: the record of a chdir came without its name;
- `refused`: the name was refused (`..`) and `/proc` could not be read;
- `fd`: the path of the descriptor of fchdir was not known;
- `ahead`: `/proc` was read while records of what it shows were still to come;
- `renewed`: `fork_thread` gave a child the current epoch with a context of an older one;
- `takeover`: a thread that does not lead its process execs: it takes the leader's id,
  and no exit is heard of its own;
- `unheard`: `/proc` was read for a new holder of an id, after one of the two before, while
  records of an earlier holder were still to come. Applying those can bring the earlier
  holder's context back, although nothing else has happened since the read.

The state of FD tables (FdTracking), mount namespaces and the ABI of a context are left out.

**OutputQueue**, **BoundedFifo** - `AdaptiveQueue` and `OutputPipeline` with every operation,
called in any order, and the promise they implement: order, refusal exactly when a
record does not fit under the hard maximum, every refusal counted, nothing lost but by a
failed write. `LimitFor` is the `while` of `try_push`. Growing and shrinking
are stutters of the promise. `Bytes`, the sum that `used_bytes` stands for, and `LimitFor` are
recursive functions.

**HealthReporter** - `HealthStateMachine` and `HealthReporter` on a clock. Library
code: the daemon does not call it (section 5). Its `HealthInit`, `HealthNext`, `HealthSpec` and
`HealthTypeOK` and the variable `health` (the `HealthState`) are named so that its theorems can stand beside those of
OutputQueue in one module.

**MCKernelFilter** gives KernelFilter its files and calls: every kind of line alone and in pairs,
the lines that are refused, a file with more watches than the path filter takes, and calls of
every class with names in every form. **MCRuleReload** gives the constant functions of RuleReload their values: three
rule sets that disagree on what they let through and select, and two operations.
**RuleReloadProofs**, **DaemonProofs**, **ExecCorrelationProofs**, **StatusCountersProofs**,
**FdTrackingProofs**, **KernelFilterProofs** and **CwdProofs** hold the theorems about the module each is
named for, and **LibraryProofs** those about OutputQueue and HealthReporter, the two
components whose operations a caller of the library may use in any order.

In every module a definition that begins "Mutant:" in its comment is a plausible
mistake in the code it stands above. `PROJECT.json` pairs each checked property with
one of them, under which the property fails.

## 3. Runs

| Run | Properties | Instance |
|---|---|---|
| `reload` | TypeOK, ActiveGenerationComplete, NoPartialRules, EngineSurvivesOneReload, ActiveNeverRewritten | 2 threads, 2 operations, 3 rule sets, 3 reloads, 1 record |
| `daemon` | TypeOK, ReportedBeforeCollecting, CollectorLeavesOnlyLate, OrderlyExitIsClean, ImplementsLifecycle, StopEndsTheRun | 2 records, any number of runs and crashes |
| `exec` | TypeOK, AttemptsAccounted, NoOrphanResult, GapOrArgv, MissingArgvHasReason, LostEntriesAreCounted | 2 threads, 3 calls, 2 records, 2 attempts pending |
| `status` | TypeOK, SubmittedIsConserved, CollectorCountsInOrder, RefusalHasACause, StatusEnds | 2 CPUs, 2 records, 1 in the ring, 2 samples |
| `status_suppressed` | UndisturbedStatusHolds (violated) | 1 CPU, 1 record |
| `fd` | TypeOK, ShownIsFollowed, LineIsTrue, WatchedCallShows | 2 threads, 2 descriptors, 2 paths, 3 calls, 2 records, 2 followed |
| `filter` | TypeOK, SavedIfCovered, LineNamesFirstRule, CoveredIsAccounted, GapIsWarranted | 17 lines in all pairs, 13 refused ones and 4 files with other numbers, ABIs and ends, about 550 calls, 2 kernel paths |
| `filter_abi` | AbiIsTold (violated) | the same |
| `cwd` | TypeOK, PathIsTrue, EarlierUnused, CacheAgrees, OldTablesGo | 2 threads or processes, 2 directories, 4 calls, 2 records, both ABIs |
| `cwd_chdir` | ChdirUpdatesCwd (violated) | the same |
| `output` | TypeOK, ImplementsFifo | limit 5 to 16, sizes 1, 4, 7, 7 records, windows 1 and 3 of 3 |
| `health` | HealthTypeOK, HealthyIsQuiet | windows 2 and 4, interval 2, 8 ticks |

### Why the bounds are enough

- `reload`: every hazard is between one handler and at most two switches; three
  reloads (rejected ones count) give a first switch, a failed activation with its
  restore, and a second switch. Two threads let one record be in the ring while
  another is being stamped. Threads are interchangeable
  and appear in no temporal property other than a step property, so
  `ThreadSymmetry` is sound. The reload counter is the only unbounded one.
- `daemon`: nothing is bounded but the ring; the number of runs, signals, reloads
  and crashes is free, because nothing counts them. Two records are enough for a
  pass over the ring that finds one and leaves one.
- `exec`: three calls let a first exec lose its record, a second call of the
  same thread take its argv, and a call of another thread interfere. The ring
  and `ExecPending` are both smaller than what three calls can produce, so both
  overflow.
- `status`: a second CPU can be caught between submit and count while the first
  goes on; with one ring slot the second record may be dropped; two tries are one
  retry and the giving up (16 in the code).

- `fd`: three calls after a descriptor that was open before are an opening, a
  change of what the number stands for and a call by it; the second thread or
  process does any of them. Two descriptors are a source and a copy. `dup2`,
  `reuse` and `full` come up within these bounds; `lost` and `behind` need more
  calls and a longer ring before they mislead a line. Random
  behaviours of six calls on three descriptors were simulated as well.
  Programs do not use a descriptor while another of their own calls on
  it is going on, since what such a program means is not defined either.

- `filter`: rules interact only through the tables of a call, so pairs of lines are
  enough, with a third line to exceed the path filter's limit (16 in the code, 2 here).
  Four more files (`Disagreeing`) are those that showed earlier forms of the properties to be
  false: a mask of the other ABI, a number in place of a name, and two paths with an end in the
  cut-off part of a name.
- `cwd`: the first chdir, a fork or exec, a second chdir and the use of a name are four calls;
  two directories tell a name applied once from one applied twice. `takeover` needs a
  fifth call to mislead a path: checked with one kind of clone and one ABI.
- `output`: 5, 10, 16: one doubling that is whole and one that is cut off; shrinking stops
  at 8 and then at 5. Seven records fill the queue, are refused, and follow others out.
- `health`: eight ticks are two quiet times, or a series of gaps that becomes unhealthy
  and a quiet time after it.

Deadlock is checked in `daemon`, in `output`, where a window can always be observed, and in
`health`, where a poll is always possible. In the other runs the bounds on reloads,
calls and records end a behaviour, and so does a refused status, so their
configurations say `CHECK_DEADLOCK FALSE`.

### Fairness

`Daemon!FairSpec` is weak fairness of the main thread's statements and strong
fairness of taking a stop signal. The runtime is single threaded and each
branch of `select!` runs to its end; ready branches are picked at random, so a stop
signal that is ready whenever the loop comes around is taken with probability one,
however many SIGHUPs are ready too. Nothing is assumed of the collector, the
kernel, the outside world, or of a status failing: `StopEndsTheRun` holds because
the drain has a deadline (`runtime.rs:902-918`), and its mutant removes it.
`StatusCounters!Spec` is weakly fair to a status once it has begun: `StatusEnds`
holds by the bound on retries, whatever the kernel does.

### What the runs show to be different from what is written

Three runs are expected to fail, each against a sentence of the repository:

1. `status_suppressed`: `argv_suppressed` counts every matched record under a rule
   that suppresses argv, not only execs, while `argv_captured` counts execs. The
   first match that is no exec makes the counters contradict each other, and the
   daemon stops at its next status.
2. `filter_abi`: nothing ever puts a first entry into `PROCESS_ABI` (`ebpf/programs/process.rs:42-45,
   63-69` only copy), so the ABI of a call is guessed from which bitmap has its number.
   A 32-bit call whose number a 64-bit rule selects is recorded as that 64-bit call.
3. `cwd_chdir`: the 64-bit list of `path_argument_indexes` (`ebpf/programs/syscall.rs:638-656`) has no
   chdir and no chroot. The record comes without the name, and the cached
   working directory stays until `/proc` is read again.

More is visible as an exception in a property that holds:

- Reload (`EngineSurvivesOneReload`): the second reload displaces the engine of
  records stamped with the version before last, which become `rule_version_unavailable` gaps.
  `docs/ebpf-aya-architecture.md:247-248` promises that old records still find it.
- Drain (`CollectorLeavesOnlyLate`): the collector reads the stop flag after its last empty
  poll; a record submitted in between stays in the ring although the outcome is Drained.
- stdout (`StdoutFails`): a permanent failure ends the collector thread and nothing else;
  the daemon stays attached and deaf until a signal, then exits 0 and writes clean.
  `contracts/health-and-logging.md:10` makes it a failure of the service.
- Exec (`GapOrArgv`): the pair of attempt and result is kept per `pid_tgid`. If the exec's own
  record is lost in a full ring, the thread's next record takes the argv.
- Exec (`LostEntriesAreCounted`): a call of a thread whose id changes under it leaves no
  record, and no counter moves (`ebpf/programs/syscall.rs:142-145` takes it for a filtered one).
- Descriptors (`LineIsTrue`, `ShownIsFollowed`): the fork record carries the thread id as
  process id, so threads of one process have separate FD tables; dup2 and dup3 are not followed in
  `WATCH_FDS` (`docs/watch-path-validation.md:21` has them copy); a reused number may end up unfollowed.
- Filter (`SavedIfCovered`): a rule without an arch is compiled for 64 bits but matched for
  both, which also makes gaps for 32-bit calls no rule would match (`OtherAbi` in
  `GapIsWarranted`); a rule without permissions loses the opens another rule's mask filters out
  (`Shadowed`), even if that mask comes from a rule for a number or from a watch of the other ABI; with the path filter on, a name spelled otherwise than in the rule,
  or shorter than its signature, is dropped (`OddlyNamed`); so are
  calls on descriptors the kernel does not follow.
- Engine (`LineNamesFirstRule`, `CoveredIsAccounted`): `-S 257` is compiled and never matched, since the
  engine compares names (`rules/engine.rs:217`; `tests/fixtures/rules/supported.rules:4` uses
  numbers). A name that was not read, or was cut off without being flagged,
  makes a covered call unmatched in silence. The flag for long names needs the helper to
  return the whole buffer of 160 bytes; without it the part of a name that was read may be the
  path of another rule, which is then output for a file it does not name (`CutOff`). A path that cannot be resolved also ends a
  record for the rules that need no path (`runtime.rs:1011`).
- Working directories (`PathIsTrue`, `CacheAgrees`, `EarlierUnused`): the causes listed for Cwd.
- Health (`HealthyIsQuiet`): a gap recorded after `fail()` or `stop()` turns Unhealthy or Stopping
  into Degraded, which quiet then heals, while `contracts/health-and-logging.md:10` gives
  unhealthy no way out. `ready()` does not end a series of gaps.
- Queue: `shrink_once` compares the candidate with the bytes in use; at the low
  watermark the comparison cannot fail.

## 4. Proofs

**RuleReloadProofs**: `TypeCorrect`, `AlwaysComplete`, `NeverPartial`,
`EngineSurvives`, `NeverRewritten`, for every set of threads, operations and rule
sets and every bound that satisfies `RulesAssumption`. None of the invariants is
inductive alone. `IInv` adds what is known in the middle of things:

- `StagingOrder`: what the inactive generation holds at each step of a reload, up to
  "complete, with its engine installed, and the displaced engine remembered" at
  the moment of the switch;
- `HandlerOK(t)`: the generation a handler uses is the active one as long
  as no switch was counted since it began, and the version it stamped has an engine as
  long as at most one was;
- `RingOK`: the same of the records in the ring.

`HandlerPreserves`, `ConsumePreserves`, `StagingPreserves`, `InstallPreserves`,
`ActivatePreserves` and `RestorePreserves` show one group of actions each.
`NeverRewritten` is an action property, shown from `IInv` in both states of a step.

**DaemonProofs**: `TypeCorrect`, `UncleanReportedFirst`, `CollectorDrains`,
`OrderlyExit`, the refinement `Refinement == Spec => ImplementsLifecycle`,
from it `DirtyUntilAccounted`, and `StopIsReached`, for every ring size. `IInv` adds

- `MarkerInv`: where the main thread is says what reader and disk find, and an
  open or owed run finds both dirty;
- `RunInv`: a run past its gap owes nothing, and a run that read the marker knows about
  a debt (`previousDirty`), because a debt means that the marker is dirty;
- `CollectorInv`: after an empty poll that followed a pass without records,
  only late records are in the ring.

The heart of it is that a failed or interrupted `write()` may or may not have replaced the
file, and that `Report` comes after `MarkDirty`: a start that fails in between
leaves the debt and the dirty marker together.
The refinement maps `Attach` to `Accept`, `Drain` to `Account`, any end of
an open run to `Die`, the directory sync of dirty to `MarkDirty`, the first rename of
clean to `MarkOther`, the gap to `Report`, and everything else to a stutter.

`StopIsReached` is the part of `StopEndsTheRun` that needs no fairness. `Distance` counts the
statements the main thread still has before it: every step of a run lowers it, leaves the
main thread where it is, or is a turn of the select loop (`RunAdvances`), and a stop
signal stays until that loop takes it (`StopIsKept`). What is left to TLC is that the main thread is
scheduled and that `select!` does not pass the signal over for ever.

**ExecCorrelationProofs**: `TypeCorrect`, `AttemptsAreAccounted`,
`ResultsFindTheirAttempts`, `ArgvIsOwnOrOrphaned`, `MissingArgvIsExplained` and
`LostEntriesCounted`, for any threads and every bound on calls, ring and pending attempts.
Whether an attempt meets its result, and an argv its record, is decided by the order of
records in the ring, so `IInv` speaks of positions:

- `Captured`: before a result (and before the end of the ring, for an id that waits for
  `sys_exit`) lies its attempt, or the collector has it or gave it up;
- `Served`: before the Syscall record of an exec lies its result, with no record of the
  thread between that would take the argv (`Quiet`), or the argv is lost or in a gap;
- `Claimed`: behind a result, unless the ring was full, lies the Syscall record that takes it.

`completed[t]` stands for a result that has just left the ring, and a thread about to
submit for the record it will submit, so that each action moves a record along one
chain: kernel, ring, collector, line. `OpenAttempt`, `RecordsOnce`, `AttemptNew`,
`PendingNew` and `ResultOpen` say that no id is at two places of it.

`IInv` was checked with TLC on the instance of the run and with four ring slots
(2,578,383 and 1,620,398 states) before it was proved.

**StatusCountersProofs**: `TypeCorrect`, `NothingLostInTheRing`, `CountedInOrder`,
`RefusedForAReason` and `StatusIsBounded`, for any number of CPUs, records, ring slots and tries. The counters
are related only if one counts what is still to be counted, so `IInv` adds

- `FlowInv`: how many programs (`Programs`, a cardinality) have seen a record and not
  settled it, put one into the ring and not counted it as submitted, or not as captured.
  `ProgramsMove` says how a step of one CPU changes such a number, whatever the
  others do;
- `OrderInv`: what the collector has left to count comes in the order of `Rank`
  (candidate, match, suppressed, gap, done), which `GapOrder` and `SyscallOrder` show of
  every record; from that order, a count owed to one side of an inequality never
  comes before the count on the other side that makes room for it;
- `SampleInv`: while nothing moves, all programs are idle and what a status has read is
  what is there (`Exact`), so that it can be refused for one reason only.

`StatusIsBounded` is the part of `StatusEnds` that needs no fairness: `StepsLeft` is at most
`MaxTries` samples of five steps and seven more, kernel and collector do not change it, and the
main thread's own steps lower it. It needs `TriesInv`: every sample counts as a try.

**FdTrackingProofs**: `TypeCorrect`, `WantedIsFollowed`, `AuditLineIsTrue` and
`WatchedCallsShow`, for any numbers of descriptors, calls, ring slots and followed
descriptors. `TypeInv` gives every call in flight its descriptors; `WantedIsFollowed` rests
on four facts that hold as long as no number was reused in flight and `WATCH_FDS` never was full:

- `Exclusive`: no two calls in flight of one process name the same descriptor, so that their
  updates of `WATCH_FDS`, which come after their effects, cannot undo each other;
- `WantedFollowed`: a wanted descriptor is followed, or the call that brought it about is
  on its way to `update_watch_fds`;
- `DroppedUnwanted` and `RemovedUnwanted`: a call without an entry makes or uses no descriptor
  that is wanted, and what a call in flight is going to remove is not wanted.

The other two are about what the collector makes of one record, but that depends on every
record before it. `MirrorInv` replays the ring, for each of the two claims ("line" and "shows")
under the conditions it is made for (`Fine`):

- `Fits(mode, T, p, i)`: there is a sequence of tables that is T after record i, that goes on as
  the collector would take the records behind it (`Result`), that is right about each checked
  call among them (`Replayed`), and that ends in a table that agrees with the kernel about
  the descriptors the claim relies on (`End`, `Trusted`): those in `WATCH_FDS` or about to be, for
  "line", and those that are wanted, for "shows";
- `Mirrors`: the cached table of a known process fits at the front of the ring; the table that
  a record was submitted with fits right after it, so that `/proc` may be read instead, as
  long as it is not ahead; and any table fits a new process at its fork record;
- `RecordsInv`: a second thread that the collector will take for a process is announced in the
  ring before it says anything, so that records before that (`Before`) are of one thread each;
- `SingleInv` and `CallInv`: in a process of one thread, what a call in flight knows of its
  descriptors is still so when it is submitted.

A thread's step is shown to take an `End` to an `End` (`EnterOwn`, `EffectOwn`, `SubmitOwn`,
`FollowOwn`) and to leave the other process alone (`Apart`); that a record comes or goes is
`FitsThrough`, `FitsAhead`, `FitsAdvance` and `FitsShift`. `FdTracking` is finite enough to
have this invariant checked first, with the sequence written as a fold over the ring:
exhaustively at three calls, and by simulation beyond.

That an open gets the least free descriptor (`Lowest`, a CHOOSE) needs the least number
principle, taken from the well-foundedness of < on the naturals.

**KernelFilterProofs**: `TypeCorrect`, `DroppedIsNotCovered`, `LineIsOfFirstRule`,
`CoveredIsHeardOf` and `GapHasItsRule`, for any rule files, calls and size of the path filter.
`IInv` says that the plan is the compiled form of rules the parser produced and the
compiler accepted (`PlanInv`), and that call, record and verdict are what the handlers
make of it (`CallInv`). The rest is what the tables mean:

- `ParseLineIsRule`: whatever the options, in whatever order and number, a line becomes a rule
  of the right shape. It is an induction over the options, done with the least number principle
  and `Reads`, a recursive function given as a formula;
- `MaskIs`, `EffectiveIs`: a permission is in the mask of a number iff some rule `Selects` the
  call of that number for it, which rests on `NumberInjective`, a fact about both tables;
- `CoveredPasses`: a rule that covers a call, and is none of the exceptions, lets it through
  every check of `try_sys_enter`;
- `MatchCovers`, `CoverMatches`: what the engine matches on a record and what a rule covers of a
  call are the same, up to the exceptions; `PathsAre` and `PermissionsAre` say what of the call
  is in the record;
- `UnknownIsMet`: permissions are missing only of an open whose mode nobody could read,
  and then any rule the compiler accepted for that call is about it.

Three earlier forms of the properties did not survive the proof, and TLC found each
counterexample once the files were there: `Shadowed` and `Unfollowed` looked for a rule by name,
`CutOff` was missing from `LineNamesFirstRule` and `OtherAbi` from `GapIsWarranted`.

**CwdProofs**: `TypeCorrect`, `PathsAreTrue`, `EarlierThreadsUnused`, `CacheSettles` and
`TablesGo`, for any depth, calls and ring slots. That a context is right is not inductive:
most of the time it is behind. `IInv` has a witness of how it comes right, for every thread
that nothing misled the collector about:

- `Replays`: a sequence of directories, one before and one after each record in the ring,
  from the one in the context to the one the thread is in now, such that each record tells of its
  step. A call appends to it, the collector takes its head off, and a read of `/proc` that is
  not `ahead` replaces it by the constant sequence;
- `Passes`: a sequence of the same shape over the holders of an id, which says whose context
  serves which record.

`Fits(s, records)` states both for any cache and any rest of the ring, so that the
operators of the cache are shown to preserve it one at a time, and a record is
their composition. The proof found a mistake in an earlier form of the history: reading
`/proc` used to clear it, and with five calls or more a record of an earlier holder of an id,
pending at the read, then brought that holder's context back with nothing left to show for it.
TLC confirmed it at seven calls and eight ring slots, beyond the bounds of the run; `unheard`
is what was missing.

**LibraryProofs**, the queue: `QueueTypeCorrect`, the refinement
`QueueImplementsFifo == Spec => ImplementsFifo`, `EveryRecordIsAccounted` and `WrittenInOrder`,
for all limits, record sizes, windows and numbers of records. The types alone are not
inductive: that no counter passes the number of records needs `Accounted`, which says where every record
offered has gone, so that `QueueInv` is both. The rest is arithmetic of two loops:

- `Recursion`: a recursive function of numbers exists, which its definition, a CHOOSE,
  leaves open; an induction with the least number principle;
- `BytesOfAppend`, `BytesOfTail`: a push adds the size of its record to the sum and a pop
  takes that of the first one off. `SumsAgree` compares the sums of sequences that begin alike;
- `LimitForGrows`: growing ends after at most `Max` steps (in fact after a few doublings), at a
  limit that has room for the record or at the maximum, and does not begin for a record that fits (`GrownFor`).

From these `EnqueueSteps` concludes that a record is refused iff the sum with it passes `Max`, whatever
the limit was, which is what `BoundedFifo!Offer` says; a drain maps to `Deliver`, a window to a
stutter. `GrowOnceKeeps` and `ShrinkOnceKeeps` show that no window takes the limit below the
bytes in use. `Accounted` and `InOrder` (numbers as written, then as they wait, go up) were checked with
TLC on the instance of the run before they were proved.

**LibraryProofs**, the reporter: `HealthTypeCorrect` and `HealthyOnlyAfterQuiet`, for all windows and
every end of the clock. What a poll tells is decided by what the state means when it
is polled, so `HealthInv` ties the state to the history whether or not anybody polls:

- `DownInv`: a failure that stands keeps the machine unhealthy or stopping, until a
  gap or `ready()` overrides it;
- `GapInv`: the gap that counts against health is the last one the machine knows;
- `HealthyInv`: a healthy machine has had no gap for a recovery window.

The types need that a series of gaps is younger than the gap window while the machine is
degraded, which `DegradeEffect` shows of every gap.

Assumed: only the `ASSUME`s of the modules, which TLC evaluates in the passing runs.

Only model-checked: `StopEndsTheRun` and `StatusEnds` (liveness under fairness, and with it
ENABLED, is outside what the prover supports); `StopIsReached` and `StatusIsBounded` prove what they
rest on besides the scheduling. Every other property of the runs that pass, all invariants,
both refinements and the action properties, is a theorem. The runs that are expected to fail have
nothing to prove.

## 5. Not modelled

- The daemon without an eBPF object (`runtime.rs`, early return): it does nothing.
- The poisoning of the registry lock: no holder can panic in between.
- The content of audit lines and status records. The daemon chooses the word of a status
  itself (`emit_runtime_status`, `runtime.rs:571-620`) from counters that never go down: after ten
  seconds any of them makes every later status "unhealthy", while `docs/operations.md:26` has
  five quiet minutes heal it. HealthReporter has that rule, and is not called.
- The composition of FdTracking and Cwd: the staleness of FD tables after exec and mounts, and
  paths relative to a descriptor. Each takes what the other knows as an input.
- `process_cache/mounts.rs` and `SignalCoordinator`, which nothing in the daemon calls.
- Decoding errors in ExecCorrelation (a record of the wrong length), which the
  kernel programs of the same build do not produce; StatusCounters has them.
- Time: a timeout may strike at any moment that the code allows it to.
- Formatting, configuration, policy checks, benchmarks, xtask and packaging, for
  the reason given under 1.

## 6. What is left

Everything the runs check, but for liveness, is proved. What could be added is more model,
in this order.

1. **FdTracking with Cwd**: paths relative to a descriptor, and FD tables that go stale with
   their process at exec and at mount boundaries. Each module now takes what the other knows as an input.
2. **Time in the collector**: `expire` runs only when the ring was found empty, so that
   an attempt may wait as long as the load lasts (a hazard without a property).
3. **Argv overrides, gid and the version digest** in Rules.
