--------------------------- MODULE HealthReporter ---------------------------
(***************************************************************************)
(* HealthStateMachine and the HealthReporter around it, which the library  *)
(* offers: gaps degrade the state, gaps that go on make it unhealthy, a    *)
(* quiet time heals it, and a poll returns a snapshot when the state has   *)
(* changed or the last snapshot is old.                                    *)
(*                                                                         *)
(* The daemon writes its status without them (emit_runtime_status, module  *)
(* StatusCounters), so the calls come in any order and at any time of a    *)
(* clock that does not run backwards. Reasons and counter values are left  *)
(* out. The names say whose they are: LibraryProofs extends this module    *)
(* and OutputQueue.                                                        *)
(***************************************************************************)
EXTENDS Naturals

CONSTANTS
  GapWindow,       (* UNHEALTHY_GAP_WINDOW; ten seconds in the code          *)
  RecoveryWindow,  (* DEGRADED_RECOVERY_WINDOW; five minutes in the code     *)
  Interval,        (* STATUS_INTERVAL; ten seconds in the code               *)
  Never,           (* no time                                                *)
  MaxTime          (* bound: when the clock stops                            *)

ASSUME HealthAssumption ==
  /\ {GapWindow, RecoveryWindow, Interval, MaxTime} \subseteq Nat \ {0}
  /\ GapWindow < RecoveryWindow
  /\ Never \notin Nat

VARIABLES
  health,     (* HealthState                                                *)
  lastGap,    (* last_gap_at                                                *)
  firstGap,   (* first_continuous_gap_at                                    *)
  unclean,    (* unclean_shutdown_detected_total, 0 or 1                    *)
  changed,    (* state_changed                                              *)
  lastReport, (* last_report_at                                             *)
  now,        (* the monotonic clock                                        *)
  told,       (* history: state of the last snapshot a poll returned        *)
  asked,      (* history: time of the last poll                             *)
  gapSince,   (* history: the last gap since the last ready()               *)
  downSince   (* history: fail() or stop() and nothing that overrides it    *)

machine == <<health, lastGap, firstGap>>
reporter == <<unclean, changed, lastReport>>
history == <<told, asked, gapSince, downSince>>
healthVars == <<machine, reporter, now, history>>

Times == 0 .. MaxTime
States == {"Starting", "Healthy", "Degraded", "Unhealthy", "Stopping"}

Changed == changed' = TRUE /\ UNCHANGED <<lastReport, now, told, asked>>

Ready ==
  /\ health' = "Healthy"
  /\ gapSince' = Never /\ downSince' = FALSE
  /\ Changed
  /\ UNCHANGED <<lastGap, firstGap, unclean>>

\* Mutant: a series of gaps is given one moment more.
SeverityLate(first) == IF now - first > GapWindow THEN "Unhealthy" ELSE "Degraded"

Severity(first) == IF now - first >= GapWindow THEN "Unhealthy" ELSE "Degraded"

\* record_gap_at.
Degrade ==
  /\ lastGap' = now
  /\ firstGap' = IF firstGap = Never THEN now ELSE firstGap
  /\ health' = Severity(firstGap')
  /\ gapSince' = now /\ downSince' = FALSE

\* Mutant: the next poll need not tell of the gap.
RecordGapUntold ==
  /\ Degrade
  /\ UNCHANGED <<reporter, now, told, asked>>

RecordGap ==
  /\ Degrade /\ Changed
  /\ UNCHANGED unclean

\* A second historical mark is an error and no gap.
RecordUncleanShutdown ==
  /\ unclean = 0
  /\ unclean' = 1
  /\ Degrade /\ Changed

\* fail, also from a kernel sample that breaks an invariant; stop.
GoDown(to) ==
  /\ health' = to
  /\ downSince' = TRUE
  /\ Changed
  /\ UNCHANGED <<lastGap, firstGap, unclean, gapSince>>

\* Mutant: the quiet time counts from the first gap of the series.
QuietSinceFirst ==
  health = "Degraded" /\ lastGap # Never /\ now - firstGap >= RecoveryWindow

\* recover_if_quiet: its condition.
Quiet == health = "Degraded" /\ lastGap # Never /\ now - lastGap >= RecoveryWindow

Due == lastReport # Never => now - lastReport >= Interval

Poll ==
  /\ asked' = now
  /\ health' = IF Quiet THEN "Healthy" ELSE health
  /\ firstGap' = IF Quiet THEN Never ELSE firstGap
  /\ IF Quiet \/ changed \/ Due
       THEN lastReport' = now /\ changed' = FALSE /\ told' = health'
       ELSE UNCHANGED <<lastReport, changed, told>>
  /\ UNCHANGED <<lastGap, unclean, now, gapSince, downSince>>

Tick ==
  /\ now < MaxTime
  /\ now' = now + 1
  /\ UNCHANGED <<machine, reporter, history>>

HealthInit ==
  /\ health = "Starting" /\ lastGap = Never /\ firstGap = Never
  /\ unclean = 0 /\ changed = TRUE /\ lastReport = Never
  /\ now = 0
  /\ told = "Starting" /\ asked = Never
  /\ gapSince = Never /\ downSince = FALSE

HealthNext ==
  \/ Ready
  \/ RecordGap
  \/ RecordUncleanShutdown
  \/ GoDown("Unhealthy")
  \/ GoDown("Stopping")
  \/ Poll
  \/ Tick

HealthSpec == HealthInit /\ [][HealthNext]_healthVars

-----------------------------------------------------------------------------
(* Properties.                                                              *)

\* The types, and how the time stamps bound each other and the state: a
\* degraded machine is in a series of gaps younger than GapWindow.
HealthTypeOK ==
  /\ health \in States /\ told \in States
  /\ {lastGap, firstGap, lastReport, asked, gapSince} \subseteq Times \cup {Never}
  /\ now \in Times /\ unclean \in {0, 1}
  /\ {changed, downSince} \subseteq BOOLEAN
  /\ firstGap # Never => lastGap \in firstGap .. now
  /\ health = "Degraded" => firstGap # Never /\ lastGap - firstGap < GapWindow
  /\ ~changed => told = health /\ lastReport \in Times

\* contracts/health-and-logging.md:9, docs/operations.md:26: who polls and goes
\* by the last snapshot believes in a healthy program only after a quiet
\* RecoveryWindow and while nothing has failed. ready() sets all this aside,
\* and a gap recorded after fail() or stop() degrades what was down, which
\* quiet then heals.
HealthyIsQuiet ==
  asked = now /\ told = "Healthy" /\ ~changed =>
    /\ ~downSince
    /\ gapSince = Never \/ now - gapSince >= RecoveryWindow
=============================================================================
