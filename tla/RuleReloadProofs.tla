-------------------------- MODULE RuleReloadProofs --------------------------
(***************************************************************************)
(* Proofs about RuleReload for every set of threads, operations and rule   *)
(* sets, every number of reloads and every ring size.                      *)
(***************************************************************************)
EXTENDS RuleReload, TLAPS

\* How far staging has come, map by map, towards the candidate.
StagingOrder ==
  /\ reload.pc # "idle" => reload.candidate \in RuleSets
  /\ reload.pc \in {"paths", "version", "install", "activate"} =>
       tables[Inactive] = reload.candidate
  /\ reload.pc \in {"version", "install", "activate"} =>
       paths[Inactive] = reload.candidate
  /\ reload.pc \in {"install", "activate"} =>
       ruleVersions[Inactive] = reload.candidate
  /\ reload.pc = "activate" => registry[Inactive] = reload.candidate

\* Where the engine of an untorn record is: with the generation in use, or one
\* switch later in the other generation, or set aside by a pending activation.
HasEngine(r) ==
  ~r.torn =>
    /\ r.version \in RuleSets
    /\ r.born = activations => r.version = registry[activeGeneration]
    /\ (r.born + 1 = activations /\ reload.pc \notin {"activate", "restore"}) =>
         r.version = registry[Inactive]
    /\ (r.born + 1 = activations /\ reload.pc \in {"activate", "restore"}) =>
         r.version = reload.previous

HandlerOK(t) ==
  LET c == call[t] IN
  c.pc # "user" =>
    /\ c.op \in Ops
    /\ c.born <= activations
    /\ c.born = activations => c.gen = activeGeneration
    /\ (c.pc \in {"version", "paths"} /\ c.born = activations) =>
         c.op \in Covers[registry[activeGeneration]]
    /\ (c.pc = "paths" /\ c.born = activations) =>
         c.version = registry[activeGeneration]
    /\ c.pc \in {"paths", "inflight"} => HasEngine(c)

RingOK == \A i \in 1 .. Len(ring) : ring[i].born <= activations /\ HasEngine(ring[i])

\* The inductive invariant.
IInv ==
  /\ TypeOK
  /\ ActiveGenerationComplete
  /\ StagingOrder
  /\ \A t \in Threads : HandlerOK(t)
  /\ RingOK
-----------------------------------------------------------------------------
\* The generation a reload writes is the other one (runtime.rs:349).
LEMMA InactiveOther ==
  ASSUME activeGeneration \in Generations
  PROVE  Inactive \in Generations /\ Inactive # activeGeneration
BY DEF Inactive, Generations

\* A thread outside every system call is in a state Call describes.
LEMMA IdleIsCall == Idle \in Call
BY DEF Idle, Call, Generations, Slot

\* The rules staged at startup establish the invariant.
LEMMA InitEstablishes == Init => IInv
<1> SUFFICES ASSUME Init PROVE IInv
  OBVIOUS
<1> USE RulesAssumption DEF Init
<1>1. TypeOK
  BY IdleIsCall DEF TypeOK, Generations, Slot, NoReload
<1>2. ActiveGenerationComplete
  BY DEF ActiveGenerationComplete, Generations
<1>3. StagingOrder
  BY DEF StagingOrder, NoReload
<1>4. \A t \in Threads : HandlerOK(t)
  BY DEF HandlerOK, Idle
<1>5. RingOK
  BY DEF RingOK
<1> QED
  BY <1>1, <1>2, <1>3, <1>4, <1>5 DEF IInv

\* A step of a system call: the rule state stands still.
LEMMA HandlerPreserves ==
  ASSUME IInv, NEW u \in Threads, Handler(u)
  PROVE  IInv'
<1> USE RulesAssumption
<1> DEFINE c == call[u]
<1>0. TypeOK /\ ActiveGenerationComplete /\ StagingOrder /\ HandlerOK(u) /\ RingOK
  BY DEF IInv
<1>1. /\ UNCHANGED <<kernel, registry, reload, rejected, verdict, activations>>
      /\ \E d : call' = [call EXCEPT ![u] = d]
  BY DEF Handler, SysEnter, ReadTables, ReadVersion, ReadPaths, SysExit
<1>2. ActiveGenerationComplete' /\ StagingOrder'
  BY <1>0, <1>1 DEF ActiveGenerationComplete, StagingOrder, kernel, Inactive
<1>4. c \in Call /\ call \in [Threads -> Call]
  BY <1>0 DEF TypeOK
<1>5. ASSUME NEW t \in Threads, t # u PROVE HandlerOK(t)'
  <2>1. HandlerOK(t) /\ call'[t] = call[t]
    BY <1>1, <1>4, <1>5 DEF IInv
  <2> QED
    BY <2>1, <1>1 DEF HandlerOK, HasEngine, Inactive, kernel
<1>6. CASE \E op \in Ops : SysEnter(u, op)
  <2>1. PICK op \in Ops : SysEnter(u, op)
    BY <1>6
  <2>2. call' \in [Threads -> Call]
    BY <2>1, <1>0, <1>4 DEF SysEnter, Call, Slot, TypeOK
  <2>3. HandlerOK(u)'
    BY <2>1, <1>0, <1>4 DEF SysEnter, HandlerOK, TypeOK, kernel
  <2>4. TypeOK' /\ RingOK'
    BY <2>1, <2>2, <1>0, <1>1 DEF SysEnter, TypeOK, RingOK, HasEngine, Inactive, kernel
  <2> QED
    BY <2>3, <2>4, <1>2, <1>5 DEF IInv
<1>7. CASE ReadTables(u)
  <2>1. call' \in [Threads -> Call]
    BY <1>7, <1>4, IdleIsCall DEF ReadTables, Call
  <2>2. HandlerOK(u)'
    BY <1>7, <1>0, <1>4 DEF ReadTables, HandlerOK, TypeOK, kernel, Idle,
       ActiveGenerationComplete, LetThrough, Call
  <2>3. TypeOK' /\ RingOK'
    BY <2>1, <1>7, <1>0, <1>1 DEF ReadTables, TypeOK, RingOK, HasEngine, Inactive, kernel
  <2> QED
    BY <2>2, <2>3, <1>2, <1>5 DEF IInv
<1>8. CASE ReadVersion(u)
  <2>1. call' \in [Threads -> Call]
    BY <1>8, <1>0, <1>4 DEF ReadVersion, Call, TypeOK
  <2>2. HandlerOK(u)'
    BY <1>8, <1>0, <1>4 DEF ReadVersion, HandlerOK, HasEngine, TypeOK, kernel,
       ActiveGenerationComplete, Call
  <2>3. TypeOK' /\ RingOK'
    BY <2>1, <1>8, <1>0, <1>1 DEF ReadVersion, TypeOK, RingOK, HasEngine, Inactive, kernel
  <2> QED
    BY <2>2, <2>3, <1>2, <1>5 DEF IInv
<1>9. CASE ReadPaths(u)
  <2>1. call' \in [Threads -> Call]
    BY <1>9, <1>4, IdleIsCall DEF ReadPaths, Call
  <2>2. HandlerOK(u)'
    BY <1>9, <1>0, <1>4 DEF ReadPaths, HandlerOK, HasEngine, kernel, Idle, Call, Inactive
  <2>3. TypeOK' /\ RingOK'
    BY <2>1, <1>9, <1>0, <1>1 DEF ReadPaths, TypeOK, RingOK, HasEngine, Inactive, kernel
  <2> QED
    BY <2>2, <2>3, <1>2, <1>5 DEF IInv
<1>10. CASE SysExit(u)
  <2>1. call' \in [Threads -> Call]
    BY <1>10, <1>4, IdleIsCall DEF SysExit
  <2>2. HandlerOK(u)'
    BY <1>10, <1>4 DEF SysExit, HandlerOK, Idle
  <2>3. Carry(c) \in Record /\ c.born <= activations /\ HasEngine(Carry(c))
    BY <1>10, <1>0, <1>4 DEF SysExit, HandlerOK, HasEngine, Carry, Record, Call
  <2>4. ring' \in Seq(Record) /\ RingOK'
    <3>1. CASE ring' = ring
      BY <3>1, <1>0, <1>1 DEF TypeOK, RingOK, HasEngine, Inactive, kernel
    <3>2. CASE ring' = Append(ring, Carry(c))
      <4>1. ring' \in Seq(Record) /\ Len(ring') = Len(ring) + 1
        BY <3>2, <2>3, <1>0 DEF TypeOK
      <4>2. ASSUME NEW i \in 1 .. Len(ring')
            PROVE ring'[i] = Carry(c) \/ (i \in 1 .. Len(ring) /\ ring'[i] = ring[i])
        BY <3>2, <4>1, <2>3, <1>0 DEF TypeOK
      <4>3. ASSUME NEW i \in 1 .. Len(ring')
            PROVE (ring[i].born <= activations /\ HasEngine(ring[i]))'
        <5>1. CASE ring'[i] = Carry(c)
          <6>1. Carry(c).born = c.born
            BY DEF Carry
          <6> QED
            BY <5>1, <6>1, <2>3, <1>1 DEF HasEngine, Inactive, kernel
        <5>2. CASE i \in 1 .. Len(ring) /\ ring'[i] = ring[i]
          BY <5>2, <1>0, <1>1 DEF RingOK, HasEngine, Inactive, kernel
        <5> QED
          BY <5>1, <5>2, <4>2
      <4> QED
        BY <4>1, <4>3 DEF RingOK
    <3> QED
      BY <3>1, <3>2, <1>10 DEF SysExit
  <2>5. TypeOK'
    BY <2>1, <2>4, <1>0, <1>1 DEF TypeOK, kernel
  <2> QED
    BY <2>2, <2>4, <2>5, <1>2, <1>5 DEF IInv
<1> QED
  BY <1>6, <1>7, <1>8, <1>9, <1>10 DEF Handler

\* The collector takes a record out of the ring.
LEMMA ConsumePreserves ==
  ASSUME IInv, Consume
  PROVE  IInv'
<1>0. TypeOK /\ ActiveGenerationComplete /\ StagingOrder /\ RingOK
  BY DEF IInv
<1>1. UNCHANGED <<activeGeneration, tables, paths, ruleVersions, registry, reload,
                  rejected, call, activations>>
  BY DEF Consume, kernel
<1>2. /\ ring' \in Seq(Record) /\ Len(ring') = Len(ring) - 1
      /\ \A i \in 1 .. Len(ring') : i + 1 \in 1 .. Len(ring) /\ ring'[i] = ring[i + 1]
  BY <1>0 DEF Consume, TypeOK
<1>3. TypeOK'
  BY <1>0, <1>1, <1>2 DEF TypeOK, Consume, Verdict
<1>4. ActiveGenerationComplete' /\ StagingOrder'
  BY <1>0, <1>1 DEF ActiveGenerationComplete, StagingOrder, Inactive
<1>5. \A t \in Threads : HandlerOK(t)'
  BY <1>1 DEF IInv, HandlerOK, HasEngine, Inactive
<1>6. RingOK'
  BY <1>0, <1>1, <1>2 DEF RingOK, HasEngine, Inactive
<1> QED
  BY <1>3, <1>4, <1>5, <1>6 DEF IInv

\* A step of the reload that neither switches generations nor touches an
\* engine: it may only write the maps of the inactive generation.
LEMMA StagingPreserves ==
  ASSUME IInv, Compile \/ StageFails \/ StageTables \/ StagePaths \/ StageVersion
  PROVE  IInv'
<1> USE RulesAssumption
<1>0. TypeOK /\ ActiveGenerationComplete /\ StagingOrder /\ RingOK
  BY DEF IInv
<1>1. UNCHANGED <<activeGeneration, registry, call, ring, verdict, activations>>
  BY DEF Compile, StageFails, StageTables, StagePaths, StageVersion, kernel
<1>2. /\ Inactive \in Generations /\ Inactive # activeGeneration
      /\ Inactive' = Inactive
  BY <1>0, <1>1, InactiveOther DEF TypeOK, Inactive
<1>3. reload.pc \notin {"activate", "restore"} /\ reload'.pc \notin {"activate", "restore"}
  BY <1>0 DEF Compile, StageFails, StageTables, StagePaths, StageVersion,
     NoReload, TypeOK
<1>4. TypeOK'
  <2>1. CASE Compile
    BY <2>1, <1>0, <1>1 DEF Compile, TypeOK, kernel, Slot
  <2>2. CASE StageFails
    BY <2>2, <1>0, <1>1 DEF StageFails, TypeOK, kernel, Slot, NoReload
  <2>3. CASE StageTables
    BY <2>3, <1>0, <1>1, <1>2 DEF StageTables, TypeOK
  <2>4. CASE StagePaths
    BY <2>4, <1>0, <1>1, <1>2 DEF StagePaths, TypeOK
  <2>5. CASE StageVersion
    BY <2>5, <1>0, <1>1, <1>2 DEF StageVersion, TypeOK
  <2> QED
    BY <2>1, <2>2, <2>3, <2>4, <2>5
<1>5. ActiveGenerationComplete'
  <2>1. /\ tables'[activeGeneration] = tables[activeGeneration]
        /\ paths'[activeGeneration] = paths[activeGeneration]
        /\ ruleVersions'[activeGeneration] = ruleVersions[activeGeneration]
    BY <1>0, <1>2 DEF Compile, StageFails, StageTables, StagePaths, StageVersion,
       kernel, TypeOK
  <2> QED
    BY <2>1, <1>0, <1>1 DEF ActiveGenerationComplete
<1>6. StagingOrder'
  <2>1. CASE Compile
    BY <2>1, <1>0 DEF Compile, StagingOrder, kernel, Inactive
  <2>2. CASE StageFails
    BY <2>2 DEF StageFails, StagingOrder, NoReload
  <2>3. CASE StageTables
    BY <2>3, <1>0, <1>2 DEF StageTables, StagingOrder, TypeOK
  <2>4. CASE StagePaths
    BY <2>4, <1>0, <1>2 DEF StagePaths, StagingOrder, TypeOK
  <2>5. CASE StageVersion
    BY <2>5, <1>0, <1>2 DEF StageVersion, StagingOrder, TypeOK
  <2> QED
    BY <2>1, <2>2, <2>3, <2>4, <2>5
<1>7. \A t \in Threads : HandlerOK(t)'
  BY <1>1, <1>2, <1>3 DEF IInv, HandlerOK, HasEngine
<1>8. RingOK'
  BY <1>0, <1>1, <1>2, <1>3 DEF RingOK, HasEngine
<1> QED
  BY <1>4, <1>5, <1>6, <1>7, <1>8 DEF IInv

\* The displaced engine is remembered before it is replaced.
LEMMA InstallPreserves ==
  ASSUME IInv, Install
  PROVE  IInv'
<1> USE RulesAssumption
<1>0. TypeOK /\ ActiveGenerationComplete /\ StagingOrder /\ RingOK
  BY DEF IInv
<1>1. UNCHANGED <<activeGeneration, tables, paths, ruleVersions, rejected, call,
                  ring, verdict, activations>>
  BY DEF Install, kernel
<1>2. /\ Inactive \in Generations /\ Inactive # activeGeneration
      /\ Inactive' = Inactive
  BY <1>0, <1>1, InactiveOther DEF TypeOK, Inactive
<1>3. /\ registry'[Inactive] = reload.candidate
      /\ registry'[activeGeneration] = registry[activeGeneration]
      /\ reload.pc = "install" /\ reload'.pc = "activate"
      /\ reload'.candidate = reload.candidate
      /\ reload'.previous = registry[Inactive]
  BY <1>0, <1>2 DEF Install, TypeOK
<1>4. TypeOK'
  BY <1>0, <1>1, <1>2 DEF Install, TypeOK
<1>5. ActiveGenerationComplete' /\ StagingOrder'
  BY <1>0, <1>1, <1>2, <1>3 DEF ActiveGenerationComplete, StagingOrder
<1>6. \A t \in Threads : HandlerOK(t)'
  BY <1>1, <1>2, <1>3 DEF IInv, HandlerOK, HasEngine
<1>7. RingOK'
  BY <1>0, <1>1, <1>2, <1>3 DEF RingOK, HasEngine
<1> QED
  BY <1>4, <1>5, <1>6, <1>7 DEF IInv

\* The switch: the staged generation becomes the one in use, and the engine of
\* the rules used so far is from now on the one of the inactive generation.
LEMMA ActivatePreserves ==
  ASSUME IInv, Activate
  PROVE  IInv'
<1> USE RulesAssumption
<1>0. TypeOK /\ ActiveGenerationComplete /\ StagingOrder /\ RingOK
  BY DEF IInv
<1>1. UNCHANGED <<tables, paths, ruleVersions, registry, call, ring, verdict>>
  BY DEF Activate
<1>2. /\ Inactive \in Generations /\ Inactive # activeGeneration
      /\ 1 - Inactive = activeGeneration /\ activations \in Nat
  BY <1>0, InactiveOther DEF TypeOK, Inactive, Generations
<1>3. CASE /\ activeGeneration' = Inactive
           /\ activations' = activations + 1
           /\ reload' = NoReload
           /\ UNCHANGED rejected
  <2>1. TypeOK'
    BY <1>3, <1>0, <1>1, <1>2 DEF TypeOK, NoReload, Slot
  <2>2. ActiveGenerationComplete'
    BY <1>3, <1>0, <1>1 DEF ActiveGenerationComplete, StagingOrder, Activate
  <2>3. StagingOrder'
    BY <1>3 DEF StagingOrder, NoReload
  <2>4. Inactive' = activeGeneration
    BY <1>3, <1>2 DEF Inactive
  <2>5. ASSUME NEW r, r.born \in Nat, r.born <= activations, HasEngine(r)
        PROVE  r.born <= activations' /\ r.born # activations'
               /\ (~r.torn => /\ r.version \in RuleSets
                              /\ r.born + 1 = activations' =>
                                   r.version = registry[activeGeneration])
    BY <2>5, <1>3, <1>2 DEF HasEngine
  <2>6. reload'.pc = "idle"
    BY <1>3 DEF NoReload
  <2>7. ASSUME NEW t \in Threads PROVE HandlerOK(t)'
    <3>1. HandlerOK(t) /\ call[t] \in Call /\ call'[t] = call[t]
      BY <1>0, <1>1 DEF IInv, TypeOK
    <3>2. CASE call[t].pc = "user"
      BY <3>1, <3>2 DEF HandlerOK
    <3>3. CASE call[t].pc \in {"tables", "version"}
      BY <3>1, <3>3, <1>2, <1>3 DEF HandlerOK, Call
    <3>4. CASE call[t].pc \in {"paths", "inflight"}
      <4>1. /\ call[t].born \in Nat /\ call[t].born <= activations
            /\ HasEngine(call[t]) /\ call[t].op \in Ops
        BY <3>1, <3>4 DEF HandlerOK, Call
      <4> QED
        BY <4>1, <2>5, <3>1, <3>4, <2>4, <2>6, <1>1 DEF HandlerOK, HasEngine
    <3> QED
      BY <3>1, <3>2, <3>3, <3>4 DEF Call
  <2>8. RingOK'
    <3>1. ASSUME NEW i \in 1 .. Len(ring)
          PROVE  ring[i].born \in Nat /\ ring[i].born <= activations /\ HasEngine(ring[i])
      <4>1. ring[i] \in Record
        BY <1>0 DEF TypeOK
      <4>2. ring[i].born \in Nat
        BY <4>1 DEF Record
      <4> QED
        BY <4>2, <1>0 DEF RingOK
    <3> QED
      BY <3>1, <2>5, <2>4, <2>6, <1>1 DEF RingOK, HasEngine
  <2> QED
    BY <2>1, <2>2, <2>3, <2>7, <2>8 DEF IInv
<1>4. CASE /\ rejected' = rejected + 1
           /\ reload' = [reload EXCEPT !.pc = "restore"]
           /\ UNCHANGED <<activeGeneration, activations>>
  <2>1. /\ reload'.pc = "restore" /\ reload'.previous = reload.previous
        /\ reload'.candidate = reload.candidate /\ reload.pc = "activate"
        /\ Inactive' = Inactive
    BY <1>4, <1>0 DEF TypeOK, Activate, Inactive
  <2>2. TypeOK' /\ ActiveGenerationComplete' /\ StagingOrder'
    BY <1>4, <2>1, <1>0, <1>1 DEF TypeOK, ActiveGenerationComplete, StagingOrder
  <2>3. \A t \in Threads : HandlerOK(t)'
    BY <1>4, <2>1, <1>1 DEF IInv, HandlerOK, HasEngine
  <2>4. RingOK'
    BY <1>0, <1>4, <2>1, <1>1 DEF RingOK, HasEngine
  <2> QED
    BY <2>2, <2>3, <2>4 DEF IInv
<1> QED
  BY <1>3, <1>4 DEF Activate

\* After a failed switch the displaced engine is back where it was.
LEMMA RestorePreserves ==
  ASSUME IInv, Restore
  PROVE  IInv'
<1> USE RulesAssumption
<1>0. TypeOK /\ ActiveGenerationComplete /\ StagingOrder /\ RingOK
  BY DEF IInv
<1>1. UNCHANGED <<activeGeneration, tables, paths, ruleVersions, rejected, call,
                  ring, verdict, activations>>
  BY DEF Restore, kernel
<1>2. /\ Inactive \in Generations /\ Inactive # activeGeneration
      /\ Inactive' = Inactive
  BY <1>0, <1>1, InactiveOther DEF TypeOK, Inactive
<1>3. /\ registry'[Inactive] = reload.previous
      /\ registry'[activeGeneration] = registry[activeGeneration]
      /\ reload.pc = "restore" /\ reload'.pc = "idle"
  BY <1>0, <1>2 DEF Restore, TypeOK, NoReload
<1>4. TypeOK'
  BY <1>0, <1>1, <1>2 DEF Restore, TypeOK, NoReload, Slot
<1>5. ActiveGenerationComplete' /\ StagingOrder'
  BY <1>0, <1>1, <1>2, <1>3 DEF ActiveGenerationComplete, StagingOrder
<1>6. \A t \in Threads : HandlerOK(t)'
  BY <1>1, <1>2, <1>3 DEF IInv, HandlerOK, HasEngine
<1>7. RingOK'
  BY <1>0, <1>1, <1>2, <1>3 DEF RingOK, HasEngine
<1> QED
  BY <1>4, <1>5, <1>6, <1>7 DEF IInv

\* A stuttering step keeps the invariant.
LEMMA StutterPreserves == IInv /\ UNCHANGED vars => IInv'
<1> SUFFICES ASSUME IInv, UNCHANGED vars PROVE IInv'
  OBVIOUS
<1>1. TypeOK' /\ ActiveGenerationComplete' /\ StagingOrder'
  BY DEF IInv, vars, kernel, TypeOK, ActiveGenerationComplete, StagingOrder, Inactive
<1>2. (\A t \in Threads : HandlerOK(t)') /\ RingOK'
  BY DEF IInv, vars, kernel, HandlerOK, RingOK, HasEngine, Inactive
<1> QED
  BY <1>1, <1>2 DEF IInv

\* The inductive invariant holds in every reachable state.
THEOREM Invariance == Spec => []IInv
<1>1. IInv /\ [Next]_vars => IInv'
  <2> SUFFICES ASSUME IInv, [Next]_vars PROVE IInv'
    OBVIOUS
  <2>1. CASE \E t \in Threads : Handler(t)
    BY <2>1, HandlerPreserves
  <2>2. CASE Consume
    BY <2>2, ConsumePreserves
  <2>3. CASE Reload
    BY <2>3, StagingPreserves, InstallPreserves, ActivatePreserves,
       RestorePreserves DEF Reload
  <2>4. CASE UNCHANGED vars
    BY <2>4, StutterPreserves
  <2> QED
    BY <2>1, <2>2, <2>3, <2>4 DEF Next
<1> QED
  BY <1>1, InitEstablishes, PTL DEF Spec

\* Every variable keeps its type.
THEOREM TypeCorrect == Spec => []TypeOK
<1>1. IInv => TypeOK
  BY DEF IInv
<1> QED
  BY <1>1, Invariance, PTL

\* The kernel never reads a generation that is incomplete or without an engine,
\* whatever reload is rejected at whatever step (loader.rs stages first and
\* activates last; runtime.rs installs the engine in between).
THEOREM AlwaysComplete == Spec => []ActiveGenerationComplete
<1>1. IInv => ActiveGenerationComplete
  BY DEF IInv
<1> QED
  BY <1>1, Invariance, PTL

\* A handler no switch has overtaken filters by one complete rule set.
THEOREM NeverPartial == Spec => []NoPartialRules
<1>1. IInv => NoPartialRules
  <2> SUFFICES ASSUME IInv, NEW t \in Threads,
                      call[t].pc \in {"version", "paths"},
                      call[t].born = activations
               PROVE  /\ call[t].op \in Covers[ruleVersions[call[t].gen]]
                      /\ call[t].pc = "paths" =>
                           call[t].version = registry[activeGeneration]
    BY DEF NoPartialRules
  <2>1. HandlerOK(t) /\ ActiveGenerationComplete
    BY DEF IInv
  <2> QED
    BY <2>1 DEF HandlerOK, ActiveGenerationComplete
<1> QED
  BY <1>1, Invariance, PTL

\* Records stamped before any switch find the engine they were filtered for
\* throughout the reload after the one that replaced their rules.
THEOREM EngineSurvives == Spec => []EngineSurvivesOneReload
<1>1. IInv => EngineSurvivesOneReload
  <2> USE RulesAssumption
  <2> SUFFICES ASSUME IInv, NEW r \in Carried, ~r.torn,
                      \/ r.born = activations
                      \/ r.born + 1 = activations /\ reload.pc \notin {"activate", "restore"}
               PROVE  EngineFor(r.version) # NoRules
    BY DEF EngineSurvivesOneReload
  <2>1. HasEngine(r)
    <3>1. CASE \E t \in Threads : r = Carry(call[t]) /\ call[t].pc \in {"paths", "inflight"}
      <4>1. PICK t \in Threads : r = Carry(call[t]) /\ call[t].pc \in {"paths", "inflight"}
        BY <3>1
      <4>2. HasEngine(call[t])
        BY <4>1 DEF IInv, HandlerOK
      <4> QED
        BY <4>1, <4>2 DEF HasEngine, Carry
    <3>2. CASE \E i \in DOMAIN ring : r = ring[i]
      <4>1. DOMAIN ring = 1 .. Len(ring)
        BY DEF IInv, TypeOK
      <4> QED
        BY <3>2, <4>1 DEF IInv, RingOK
    <3> QED
      BY <3>1, <3>2 DEF Carried
  <2>2. \E g \in Generations : registry[g] = r.version
    BY <2>1, InactiveOther DEF HasEngine, IInv, TypeOK
  <2>3. r.version # NoRules
    BY <2>1 DEF HasEngine
  <2> QED
    BY <2>2, <2>3 DEF EngineFor
<1> QED
  BY <1>1, Invariance, PTL

\* The generation in use changes only by switching to the other one.
THEOREM NeverRewritten == Spec => ActiveNeverRewritten
<1> DEFINE Kept ==
      /\ activeGeneration' = activeGeneration =>
           /\ tables'[activeGeneration] = tables[activeGeneration]
           /\ paths'[activeGeneration] = paths[activeGeneration]
           /\ ruleVersions'[activeGeneration] = ruleVersions[activeGeneration]
           /\ registry'[activeGeneration] = registry[activeGeneration]
      /\ activeGeneration' # activeGeneration => ActiveGenerationComplete'
<1>1. ASSUME IInv, IInv', Next PROVE Kept
  <2>1. ActiveGenerationComplete'
    BY <1>1 DEF IInv
  <2>2. /\ activeGeneration \in Generations /\ Inactive # activeGeneration
        /\ tables \in [Generations -> Slot] /\ paths \in [Generations -> Slot]
        /\ ruleVersions \in [Generations -> Slot] /\ registry \in [Generations -> Slot]
    BY <1>1, InactiveOther DEF IInv, TypeOK
  <2>3. CASE (\E t \in Threads : Handler(t)) \/ Consume
    BY <2>3, <2>1 DEF Handler, SysEnter, ReadTables, ReadVersion, ReadPaths, SysExit,
       Consume, kernel
  <2>4. CASE Reload
    BY <2>4, <2>1, <2>2 DEF Reload, Compile, StageFails, StageTables, StagePaths,
       StageVersion, Install, Activate, Restore, kernel
  <2> QED
    BY <2>3, <2>4, <1>1 DEF Next
<1>2. IInv /\ IInv' /\ [Next]_vars => [Kept]_vars
  BY <1>1
<1> QED
  BY <1>2, Invariance, PTL DEF Spec, ActiveNeverRewritten
=============================================================================
