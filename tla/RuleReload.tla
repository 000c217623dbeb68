----------------------------- MODULE RuleReload -----------------------------
(***************************************************************************)
(* SIGHUP rule reload over the two kernel generations.                     *)
(*                                                                         *)
(* The main thread stages a candidate rule set map by map into the         *)
(* generation the kernel is not using, installs the matching user-space    *)
(* RuleEngine in the registry, and only then writes ACTIVE_GENERATION.     *)
(* Meanwhile sys_enter handlers read those maps one lookup at a time,      *)
(* system calls stay in flight for as long as they block, and the          *)
(* collector pops records whose header carries the rule version they were  *)
(* filtered under, and evaluates them with the engine of that version.     *)
(*                                                                         *)
(* A rule set stands for its content; rule_version is a digest of the      *)
(* content, so here the version of a rule set is the rule set itself.      *)
(***************************************************************************)
EXTENDS Naturals, Sequences

CONSTANTS
  Threads,     (* threads that make system calls                            *)
  Ops,         (* a system call together with the path it names             *)
  RuleSets,    (* the rule files' contents a reload may compile             *)
  NoRules,     (* what a never-staged map slot or registry entry holds      *)
  NoOp,        (* the operation of a thread that is in user mode            *)
  Covers,      (* ops whose syscall number is in the bitmap of a rule set   *)
  Candidates,  (* ops that also pass its path filter                        *)
  Selects,     (* ops a rule of the set matches in user space               *)
  Boot,        (* the rule set loaded at startup, generation 0              *)
  MaxReloads,  (* bound: reloads started                                    *)
  RingSlots    (* bound: records the ring buffer holds                      *)

ASSUME RulesAssumption ==
  /\ Boot \in RuleSets
  /\ NoRules \notin RuleSets
  /\ NoOp \notin Ops
  /\ Covers \in [RuleSets -> SUBSET Ops]
  /\ Candidates \in [RuleSets -> SUBSET Ops]
  /\ Selects \in [RuleSets -> SUBSET Ops]
  /\ \A r \in RuleSets :
       Selects[r] \subseteq Candidates[r] /\ Candidates[r] \subseteq Covers[r]
  /\ MaxReloads \in Nat
  /\ RingSlots \in Nat \ {0}

VARIABLES
  activeGeneration, (* ACTIVE_GENERATION                                    *)
  tables,           (* per generation: syscall, permission, maintenance maps*)
  paths,            (* per generation: watch path digests                   *)
  ruleVersions,     (* per generation: RULE_VERSIONS                        *)
  registry,         (* per generation: the engine in RuleEngineRegistry     *)
  reload,           (* progress of the SIGHUP branch of the main loop       *)
  rejected,         (* rule_reload_failed_total                             *)
  call,             (* per thread: its sys_enter handler or inflight entry  *)
  ring,             (* EVENTS, oldest record first                          *)
  verdict,          (* what the collector made of the last record           *)
  activations       (* history: generation switches so far                  *)

kernel == <<activeGeneration, tables, paths, ruleVersions>>
vars == <<kernel, registry, reload, rejected, call, ring, verdict, activations>>

Generations == {0, 1}
Slot == RuleSets \cup {NoRules}

Idle == [pc |-> "user", op |-> NoOp, gen |-> 0, version |-> NoRules,
         born |-> 0, torn |-> FALSE]
NoReload == [pc |-> "idle", candidate |-> NoRules, previous |-> NoRules]

\* Operations a map slot lets through; a slot nobody staged is all zeroes.
LetThrough(digest, slot) == IF slot = NoRules THEN {} ELSE digest[slot]

\* Mutant: a reload stages over the generation in use.
InPlace == activeGeneration

\* The generation a reload writes: never the one the kernel reads.
Inactive == 1 - activeGeneration

\* engine_for_version: any generation whose engine has that version.
EngineFor(version) ==
  IF \E g \in Generations : registry[g] = version THEN version ELSE NoRules

-----------------------------------------------------------------------------
(* Kernel programs.                                                         *)

\* sys_enter reads ACTIVE_GENERATION once and uses it for every later lookup.
SysEnter(t, op) ==
  /\ call[t].pc = "user"
  /\ call' = [call EXCEPT ![t] =
       [pc |-> "tables", op |-> op, gen |-> activeGeneration,
        version |-> NoRules, born |-> activations, torn |-> FALSE]]
  /\ UNCHANGED <<kernel, registry, reload, rejected, ring, verdict, activations>>

ReadTables(t) ==
  /\ call[t].pc = "tables"
  /\ call' = [call EXCEPT ![t] =
       IF call[t].op \in LetThrough(Covers, tables[call[t].gen])
         THEN [call[t] EXCEPT !.pc = "version"] ELSE Idle]
  /\ UNCHANGED <<kernel, registry, reload, rejected, ring, verdict, activations>>

\* The version is read after the bitmap and permission tables. "torn" is
\* history: a generation switch fell between the two reads.
ReadVersion(t) ==
  /\ call[t].pc = "version"
  /\ call' = [call EXCEPT ![t].pc = "paths",
                          ![t].version = ruleVersions[call[t].gen],
                          ![t].torn = call[t].born # activations]
  /\ UNCHANGED <<kernel, registry, reload, rejected, ring, verdict, activations>>

\* The path filter, then the insertion into INFLIGHT_SYSCALLS, which may find
\* the map full; the call itself goes on either way.
ReadPaths(t) ==
  /\ call[t].pc = "paths"
  /\ \/ /\ call[t].op \in LetThrough(Candidates, paths[call[t].gen])
        /\ call' = [call EXCEPT ![t].pc = "inflight"]
     \/ call' = [call EXCEPT ![t] = Idle]
  /\ UNCHANGED <<kernel, registry, reload, rejected, ring, verdict, activations>>

Carry(c) == [op |-> c.op, version |-> c.version, born |-> c.born, torn |-> c.torn]

\* sys_exit moves the inflight entry into the ring, or drops it if full.
SysExit(t) ==
  /\ call[t].pc = "inflight"
  /\ call' = [call EXCEPT ![t] = Idle]
  /\ ring' = IF Len(ring) < RingSlots
               THEN Append(ring, Carry(call[t])) ELSE ring
  /\ UNCHANGED <<kernel, registry, reload, rejected, verdict, activations>>

-----------------------------------------------------------------------------
(* Collector thread.                                                        *)

Verdict(record) ==
  LET engine == EngineFor(record.version) IN
  IF engine = NoRules THEN "gap"
  ELSE IF record.op \in Selects[engine] THEN "matched" ELSE "unmatched"

Consume ==
  /\ ring # <<>>
  /\ verdict' = Verdict(Head(ring))
  /\ ring' = Tail(ring)
  /\ UNCHANGED <<kernel, registry, reload, rejected, call, activations>>

-----------------------------------------------------------------------------
(* Main thread: the SIGHUP branch.                                          *)

\* Compile the rule files into a plan for the inactive generation.
Compile ==
  /\ reload.pc = "idle"
  /\ activations + rejected < MaxReloads
  /\ \/ /\ \E c \in RuleSets :
             reload' = [pc |-> "tables", candidate |-> c, previous |-> NoRules]
        /\ UNCHANGED rejected
     \/ /\ rejected' = rejected + 1
        /\ UNCHANGED reload
  /\ UNCHANGED <<kernel, registry, call, ring, verdict, activations>>

\* A map update failed: the branch counts the failure and returns to select.
\* Whatever was already staged stays in the inactive generation.
StageFails ==
  /\ reload.pc \in {"tables", "paths", "version"}
  /\ rejected' = rejected + 1
  /\ reload' = NoReload
  /\ UNCHANGED <<kernel, registry, call, ring, verdict, activations>>

StageTables ==
  /\ reload.pc = "tables"
  /\ tables' = [tables EXCEPT ![Inactive] = reload.candidate]
  /\ reload' = [reload EXCEPT !.pc = "paths"]
  /\ UNCHANGED <<activeGeneration, paths, ruleVersions, registry, rejected,
                 call, ring, verdict, activations>>

\* Mutant: the version of the staged rules is not written.
StagePathsOnly ==
  /\ reload.pc = "paths"
  /\ paths' = [paths EXCEPT ![Inactive] = reload.candidate]
  /\ reload' = [reload EXCEPT !.pc = "install"]
  /\ UNCHANGED <<activeGeneration, tables, ruleVersions, registry, rejected,
                 call, ring, verdict, activations>>

StagePaths ==
  /\ reload.pc = "paths"
  /\ paths' = [paths EXCEPT ![Inactive] = reload.candidate]
  /\ reload' = [reload EXCEPT !.pc = "version"]
  /\ UNCHANGED <<activeGeneration, tables, ruleVersions, registry, rejected,
                 call, ring, verdict, activations>>

StageVersion ==
  /\ reload.pc = "version"
  /\ ruleVersions' = [ruleVersions EXCEPT ![Inactive] = reload.candidate]
  /\ reload' = [reload EXCEPT !.pc = "install"]
  /\ UNCHANGED <<activeGeneration, tables, paths, registry, rejected, call,
                 ring, verdict, activations>>

Install ==
  /\ reload.pc = "install"
  /\ registry' = [registry EXCEPT ![Inactive] = reload.candidate]
  /\ reload' = [reload EXCEPT !.pc = "activate", !.previous = registry[Inactive]]
  /\ UNCHANGED <<kernel, rejected, call, ring, verdict, activations>>

\* Mutant: the generation number runs on instead of flipping.
ActivateNext ==
  /\ reload.pc = "activate"
  /\ activeGeneration' = activeGeneration + 1
  /\ activations' = activations + 1
  /\ reload' = NoReload
  /\ UNCHANGED <<rejected, tables, paths, ruleVersions, registry, call, ring,
                 verdict>>

Activate ==
  /\ reload.pc = "activate"
  /\ \/ /\ activeGeneration' = Inactive
        /\ activations' = activations + 1
        /\ reload' = NoReload
        /\ UNCHANGED rejected
     \/ /\ rejected' = rejected + 1
        /\ reload' = [reload EXCEPT !.pc = "restore"]
        /\ UNCHANGED <<activeGeneration, activations>>
  /\ UNCHANGED <<tables, paths, ruleVersions, registry, call, ring, verdict>>

\* Mutant: the candidate's engine is withdrawn, the displaced one forgotten.
Withdraw ==
  /\ reload.pc = "restore"
  /\ registry' = [registry EXCEPT ![Inactive] = NoRules]
  /\ reload' = NoReload
  /\ UNCHANGED <<kernel, rejected, call, ring, verdict, activations>>

\* Mutant: the displaced engine goes to the generation in use.
RestoreActive ==
  /\ reload.pc = "restore"
  /\ registry' = [registry EXCEPT ![activeGeneration] = reload.previous]
  /\ reload' = NoReload
  /\ UNCHANGED <<kernel, rejected, call, ring, verdict, activations>>

\* The failed activation puts the displaced engine back.
Restore ==
  /\ reload.pc = "restore"
  /\ registry' = [registry EXCEPT ![Inactive] = reload.previous]
  /\ reload' = NoReload
  /\ UNCHANGED <<kernel, rejected, call, ring, verdict, activations>>

-----------------------------------------------------------------------------
Init ==
  /\ activeGeneration = 0
  /\ tables = [g \in Generations |-> IF g = 0 THEN Boot ELSE NoRules]
  /\ paths = tables
  /\ ruleVersions = tables
  /\ registry = tables
  /\ reload = NoReload
  /\ rejected = 0
  /\ call = [t \in Threads |-> Idle]
  /\ ring = <<>>
  /\ verdict = "none"
  /\ activations = 0

Handler(t) ==
  \/ \E op \in Ops : SysEnter(t, op)
  \/ ReadTables(t) \/ ReadVersion(t) \/ ReadPaths(t) \/ SysExit(t)

Reload ==
  \/ Compile \/ StageFails \/ StageTables \/ StagePaths \/ StageVersion
  \/ Install \/ Activate \/ Restore

Next == (\E t \in Threads : Handler(t)) \/ Consume \/ Reload

Spec == Init /\ [][Next]_vars

-----------------------------------------------------------------------------
(* Properties.                                                              *)

Call == [pc : {"user", "tables", "version", "paths", "inflight"},
         op : Ops \cup {NoOp}, gen : Generations, version : Slot, born : Nat,
         torn : BOOLEAN]

Record == [op : Ops \cup {NoOp}, version : Slot, born : Nat, torn : BOOLEAN]

TypeOK ==
  /\ activeGeneration \in Generations
  /\ tables \in [Generations -> Slot]
  /\ paths \in [Generations -> Slot]
  /\ ruleVersions \in [Generations -> Slot]
  /\ registry \in [Generations -> Slot]
  /\ reload \in [pc : {"idle", "tables", "paths", "version", "install",
                       "activate", "restore"},
                 candidate : Slot, previous : Slot]
  /\ rejected \in Nat
  /\ call \in [Threads -> Call]
  /\ ring \in Seq(Record)
  /\ verdict \in {"none", "matched", "unmatched", "gap"}
  /\ activations \in Nat

\* The generation the kernel reads is always complete and of one rule set, and
\* the registry holds the engine for it: no reload, rejected at any step or
\* applied, lets the kernel run rules user space cannot evaluate.
ActiveGenerationComplete ==
  LET v == registry[activeGeneration] IN
  /\ v \in RuleSets
  /\ tables[activeGeneration] = v
  /\ paths[activeGeneration] = v
  /\ ruleVersions[activeGeneration] = v

\* A handler that has seen no generation switch since it read
\* ACTIVE_GENERATION decides by one complete rule set: the one it stamps.
NoPartialRules ==
  \A t \in Threads :
    LET c == call[t] IN
    (c.pc \in {"version", "paths"} /\ c.born = activations) =>
      /\ c.op \in Covers[ruleVersions[c.gen]]
      /\ c.pc = "paths" => c.version = registry[activeGeneration]

\* Records on their way to the collector: stamped, in flight or in the ring.
Carried ==
  {Carry(call[t]) : t \in {u \in Threads : call[u].pc \in {"paths", "inflight"}}}
    \cup {ring[i] : i \in DOMAIN ring}

\* A record stamped before any switch is evaluated by the engine of the rules it
\* was filtered under through the next reload, however long its system call
\* blocks: only the install of a second reload may displace that engine.
EngineSurvivesOneReload ==
  \A r \in Carried :
    /\ ~r.torn
    /\ \/ r.born = activations
       \/ r.born + 1 = activations /\ reload.pc \notin {"activate", "restore"}
    => EngineFor(r.version) # NoRules

\* The generation in use is never written in place: its maps and its engine
\* change only by a switch to the other generation, already complete.
ActiveNeverRewritten ==
  [][ /\ activeGeneration' = activeGeneration =>
           /\ tables'[activeGeneration] = tables[activeGeneration]
           /\ paths'[activeGeneration] = paths[activeGeneration]
           /\ ruleVersions'[activeGeneration] = ruleVersions[activeGeneration]
           /\ registry'[activeGeneration] = registry[activeGeneration]
      /\ activeGeneration' # activeGeneration => ActiveGenerationComplete' ]_vars
=============================================================================
